---- MODULE Spec2Model ----
(***************************************************************************)
(* A model of the bobarista interpreter: the run-time value model, the     *)
(* unary and binary operator tables, the frame store of the Engine, the    *)
(* tree-walking evaluator (eval, eval_statement, eval_func), the           *)
(* expression parser (Expr::parse) and the source cache (BobaCache).       *)
(*                                                                         *)
(* Strings are sequences of character codes, Int is an unbounded integer   *)
(* (IBig) and Float an exact rational n/d in lowest terms with d > 0       *)
(* (DBig; the rounding of the decimal library is outside the model).       *)
(***************************************************************************)
EXTENDS Integers, Sequences, FiniteSets, TLC

\* global_scope and nested_scopes are the Engine's fields.  call is the call
\* of the host that returned last, with the engine before and after it, its
\* result and the trace of its evaluation.  frame_bound is the history of the
\* names that calls which have returned bound inside a call frame.
VARIABLES global_scope, nested_scopes, call, frame_bound

\* COUNTER is the static counter of BobaCache::new.  caches holds the
\* BobaCache instances the host keeps, by slot.  returned is the history of
\* the entries that the store calls on the instance in each slot returned.
VARIABLES COUNTER, caches, returned

cache_vars == <<COUNTER, caches, returned>>

vars == <<global_scope, nested_scopes, call, frame_bound, COUNTER, caches, returned>>

\* ------------------------------------------------------------------------
\* Bounds of the model
\* ------------------------------------------------------------------------

\* Integer literals and values drawn as inputs range over -MaxInt..MaxInt.
MaxInt == 7

\* Calls plus loop iterations one evaluation may spend before it is taken
\* not to return (unbounded recursion, a loop that never ends).
Fuel == 4

\* Call frames the host may push itself with push_scope.
MaxDepth == 2

\* The bits of a u32 in the model: each half of a CacheId, and the counter
\* of BobaCache::new, have IdBits bits where the program has 32.
IdBits == 2

\* BobaCache instances the host keeps at one time.
MaxCaches == 2

\* Entries the host stores in one cache.
MaxStores == 2

\* ------------------------------------------------------------------------
\* Value (engine/value.rs)
\* ------------------------------------------------------------------------

VNone == [t |-> "none"]
VBool(b) == [t |-> "bool", b |-> b]
VInt(i) == [t |-> "int", i |-> i]
VString(s) == [t |-> "string", s |-> s]

Abs(i) == IF i < 0 THEN -i ELSE i

RECURSIVE Gcd(_, _)
Gcd(a, b) == IF b = 0 THEN a ELSE Gcd(b, a % b)

\* A Float as the rational n/d, kept in lowest terms with d > 0.
VFloat(n, d) ==
    LET s == IF d < 0 THEN -1 ELSE 1
        g == Gcd(Abs(n), Abs(d))
    IN  [t |-> "float", n |-> (s * n) \div g, d |-> (s * d) \div g]

\* DBig::from(IBig)
FloatOfInt(i) == VFloat(i, 1)

\* `v as i64`, `v as u8`, `v as usize` of a bool
BoolAsInt(b) == IF b THEN 1 ELSE 0

type_name(v) == v.t

TypeNames == {"none", "bool", "int", "float", "string"}

\* ------------------------------------------------------------------------
\* Display of values, as used by format!("{v1}{v2}")
\* ------------------------------------------------------------------------

RECURSIVE DisplayNat(_)
DisplayNat(n) ==
    IF n < 10 THEN <<48 + n>> ELSE DisplayNat(n \div 10) \o <<48 + (n % 10)>>

DisplayInt(i) == IF i < 0 THEN <<45>> \o DisplayNat(-i) ELSE DisplayNat(i)

DisplayBool(b) == IF b THEN <<116, 114, 117, 101>> ELSE <<102, 97, 108, 115, 101>>

\* The least k with d dividing 10^k (d > 0 with prime factors 2 and 5 only),
\* searched up to 6 digits; -1 when the expansion does not terminate there.
RECURSIVE DecimalPlaces(_, _, _)
DecimalPlaces(d, pow, k) ==
    IF pow % d = 0 THEN k
    ELSE IF k >= 6 THEN -1
    ELSE DecimalPlaces(d, pow * 10, k + 1)

RECURSIVE Pow10(_)
Pow10(k) == IF k = 0 THEN 1 ELSE 10 * Pow10(k - 1)

RECURSIVE PadZeros(_, _)
PadZeros(s, k) == IF Len(s) >= k THEN s ELSE PadZeros(<<48>> \o s, k)

\* Decimal text of the rational n/d: "2", "0.5", "-1.25"; a value whose
\* expansion does not terminate is printed to the 6 digits searched.
DisplayFloat(n, d) ==
    LET k0 == DecimalPlaces(d, 1, 0)
        k == IF k0 < 0 THEN 6 ELSE k0
        scaled == (Abs(n) * Pow10(k)) \div d
        whole == scaled \div Pow10(k)
        frac == scaled % Pow10(k)
        sign == IF n < 0 THEN <<45>> ELSE <<>>
    IN  IF k = 0 THEN sign \o DisplayNat(whole)
        ELSE sign \o DisplayNat(whole) \o <<46>> \o PadZeros(DisplayNat(frac), k)

\* String::repeat
RECURSIVE Repeat(_, _)
Repeat(s, count) == IF count <= 0 THEN <<>> ELSE s \o Repeat(s, count - 1)

\* Lexicographic order of two strings: -1, 0 or 1
RECURSIVE StrCmp(_, _)
StrCmp(a, b) ==
    IF a = <<>> /\ b = <<>> THEN 0
    ELSE IF a = <<>> THEN -1
    ELSE IF b = <<>> THEN 1
    ELSE IF Head(a) < Head(b) THEN -1
    ELSE IF Head(a) > Head(b) THEN 1
    ELSE StrCmp(Tail(a), Tail(b))

\* ------------------------------------------------------------------------
\* Results: Result<Value, RunError>
\* ------------------------------------------------------------------------

Ok(v) == [k |-> "ok", v |-> v]
Err(e) == [k |-> "err", e |-> e]

\* An operation of the arbitrary-precision library that yields no value of
\* this model: a zero divisor, a zero base with a negative exponent, and a
\* power with a non-integer exponent (not a rational).
OutOfModel == [k |-> "outside"]

\* ------------------------------------------------------------------------
\* Arithmetic of the number library on Int and Float
\* ------------------------------------------------------------------------

FAdd(a, b) == VFloat(a.n * b.d + b.n * a.d, a.d * b.d)
FSub(a, b) == VFloat(a.n * b.d - b.n * a.d, a.d * b.d)
FMul(a, b) == VFloat(a.n * b.n, a.d * b.d)
FDiv(a, b) == IF b.n = 0 THEN OutOfModel ELSE Ok(VFloat(a.n * b.d, a.d * b.n))

\* -1, 0 or 1 as a < b, a = b, a > b
FCmp(a, b) ==
    LET l == a.n * b.d
        r == b.n * a.d
    IN  IF l < r THEN -1 ELSE IF l > r THEN 1 ELSE 0

ICmp(a, b) == IF a < b THEN -1 ELSE IF a > b THEN 1 ELSE 0

\* The remainder of truncated division, whose sign is the dividend's
IRemEuclid_Truncated(n, d) ==
    IF d = 0 THEN OutOfModel
    ELSE Ok(VInt(IF n < 0 THEN -((-n) % Abs(d)) ELSE n % Abs(d)))

\* RemEuclid for Int: the remainder in 0 .. |d|-1
IRemEuclid(n, d) == IF d = 0 THEN OutOfModel ELSE Ok(VInt(n % Abs(d)))

\* RemEuclid for Float: a - |b| * floor(a / |b|)
FRemEuclid(a, b) ==
    IF b.n = 0 THEN OutOfModel
    ELSE LET m == VFloat(Abs(b.n), b.d)
             q == (a.n * m.d) \div (a.d * m.n)
         IN  Ok(FSub(a, FMul(VFloat(q, 1), m)))

RECURSIVE IPow(_, _)
IPow(b, e) == IF e = 0 THEN 1 ELSE b * IPow(b, e - 1)

\* powf
FPow(a, b) ==
    IF b.d # 1 THEN OutOfModel
    ELSE IF b.n >= 0 THEN Ok(VFloat(IPow(a.n, b.n), IPow(a.d, b.n)))
    ELSE IF a.n = 0 THEN OutOfModel
    ELSE Ok(VFloat(IPow(a.d, -b.n), IPow(a.n, -b.n)))

UnaryOpType == {"Neg", "Not"}

ArithOps == {"Add", "Sub", "Mul", "Div", "Mod", "Pow"}
CompareOps == {"Eq", "Lt", "Gt", "NEq", "LtEq", "GtEq"}
LogicOps == {"And", "Or"}
BinaryOpType == ArithOps \cup CompareOps \cup LogicOps

\* The outcome of a comparison operator on an ordering c in {-1, 0, 1}
Compare(op, c) ==
    CASE op = "Eq" -> c = 0
      [] op = "Lt" -> c < 0
      [] op = "Gt" -> c > 0
      [] op = "NEq" -> c # 0
      [] op = "LtEq" -> c <= 0
      [] op = "GtEq" -> c >= 0

InvalidUnary(op, vtype) == Err([kind |-> "InvalidUnary", op |-> op, vtype |-> vtype])

InvalidBinary(op, vtype1, vtype2) ==
    Err([kind |-> "InvalidBinary", op |-> op, vtype1 |-> vtype1, vtype2 |-> vtype2])

eval_unary(op, val) ==
    CASE val.t = "bool" /\ op = "Not" -> Ok(VBool(~val.b))
      [] val.t = "int" /\ op = "Neg" -> Ok(VInt(-val.i))
      [] val.t = "float" /\ op = "Neg" -> Ok(VFloat(-val.n, val.d))
      [] OTHER -> InvalidUnary(op, type_name(val))

\* --- INT OPS --- (left operand Int)
IntOps(v1, op, val2) ==
    CASE op = "Add" /\ val2.t = "bool" -> Ok(VInt(v1 + BoolAsInt(val2.b)))
      [] op = "Add" /\ val2.t = "int" -> Ok(VInt(v1 + val2.i))
      [] op = "Add" /\ val2.t = "float" -> Ok(FAdd(FloatOfInt(v1), val2))
      [] op = "Sub" /\ val2.t = "bool" -> Ok(VInt(v1 - BoolAsInt(val2.b)))
      [] op = "Sub" /\ val2.t = "int" -> Ok(VInt(v1 - val2.i))
      [] op = "Sub" /\ val2.t = "float" -> Ok(FSub(FloatOfInt(v1), val2))
      [] op = "Mul" /\ val2.t = "bool" -> Ok(VInt(v1 * BoolAsInt(val2.b)))
      [] op = "Mul" /\ val2.t = "int" -> Ok(VInt(v1 * val2.i))
      [] op = "Mul" /\ val2.t = "float" -> Ok(FMul(FloatOfInt(v1), val2))
      [] op = "Div" /\ val2.t = "int" -> FDiv(FloatOfInt(v1), FloatOfInt(val2.i))
      [] op = "Div" /\ val2.t = "float" -> FDiv(FloatOfInt(v1), val2)
      [] op = "Mod" /\ val2.t = "int" -> IRemEuclid(v1, val2.i)
      [] op = "Mod" /\ val2.t = "float" -> FRemEuclid(FloatOfInt(v1), val2)
      [] op = "Pow" /\ val2.t = "int" -> FPow(FloatOfInt(v1), FloatOfInt(val2.i))
      [] op = "Pow" /\ val2.t = "float" -> FPow(FloatOfInt(v1), val2)
      [] op \in CompareOps /\ val2.t = "int" -> Ok(VBool(Compare(op, ICmp(v1, val2.i))))
      [] op \in CompareOps /\ val2.t = "float" ->
            Ok(VBool(Compare(op, FCmp(FloatOfInt(v1), val2))))
      [] OTHER -> InvalidBinary(op, "int", type_name(val2))

\* --- FLOAT OPS --- (left operand Float)
FloatOps(v1, op, val2) ==
    CASE op = "Add" /\ val2.t = "bool" -> Ok(FAdd(v1, FloatOfInt(BoolAsInt(val2.b))))
      [] op = "Add" /\ val2.t = "int" -> Ok(FAdd(v1, FloatOfInt(val2.i)))
      [] op = "Add" /\ val2.t = "float" -> Ok(FAdd(v1, val2))
      [] op = "Sub" /\ val2.t = "bool" -> Ok(FSub(v1, FloatOfInt(BoolAsInt(val2.b))))
      [] op = "Sub" /\ val2.t = "int" -> Ok(FSub(v1, FloatOfInt(val2.i)))
      [] op = "Sub" /\ val2.t = "float" -> Ok(FSub(v1, val2))
      [] op = "Mul" /\ val2.t = "bool" -> Ok(FMul(v1, FloatOfInt(BoolAsInt(val2.b))))
      [] op = "Mul" /\ val2.t = "int" -> Ok(FMul(v1, FloatOfInt(val2.i)))
      [] op = "Mul" /\ val2.t = "float" -> Ok(FMul(v1, val2))
      [] op = "Div" /\ val2.t = "int" -> FDiv(v1, FloatOfInt(val2.i))
      [] op = "Div" /\ val2.t = "float" -> FDiv(v1, val2)
      [] op = "Mod" /\ val2.t = "int" -> FRemEuclid(v1, FloatOfInt(val2.i))
      [] op = "Mod" /\ val2.t = "float" -> FRemEuclid(v1, val2)
      [] op = "Pow" /\ val2.t = "int" -> FPow(v1, FloatOfInt(val2.i))
      [] op = "Pow" /\ val2.t = "float" -> FPow(v1, val2)
      [] op \in CompareOps /\ val2.t = "int" ->
            Ok(VBool(Compare(op, FCmp(v1, FloatOfInt(val2.i)))))
      [] op \in CompareOps /\ val2.t = "float" -> Ok(VBool(Compare(op, FCmp(v1, val2))))
      [] OTHER -> InvalidBinary(op, "float", type_name(val2))

\* --- STRING OPS --- (left operand String)
StringOps(v1, op, val2) ==
    CASE op = "Add" /\ val2.t = "bool" -> Ok(VString(v1 \o DisplayBool(val2.b)))
      [] op = "Add" /\ val2.t = "int" -> Ok(VString(v1 \o DisplayInt(val2.i)))
      [] op = "Add" /\ val2.t = "float" -> Ok(VString(v1 \o DisplayFloat(val2.n, val2.d)))
      [] op = "Add" /\ val2.t = "string" -> Ok(VString(v1 \o val2.s))
      [] op = "Mul" /\ val2.t = "bool" -> Ok(VString(Repeat(v1, BoolAsInt(val2.b))))
      [] op = "Mul" /\ val2.t = "int" ->
            IF val2.i < 0 THEN Ok(VString(<<>>)) ELSE Ok(VString(Repeat(v1, val2.i)))
      [] op \in CompareOps /\ val2.t = "string" ->
            Ok(VBool(Compare(op, StrCmp(v1, val2.s))))
      [] OTHER -> InvalidBinary(op, "string", type_name(val2))

\* A Bool on the left taken as the integer 0 or 1
BoolOps_AsInt(v1, op, val2) == IntOps(BoolAsInt(v1), op, val2)

\* --- BOOLEAN OPS --- (left operand Bool)
BoolOps(v1, op, val2) ==
    CASE op \in CompareOps /\ val2.t = "bool" ->
            Ok(VBool(Compare(op, ICmp(BoolAsInt(v1), BoolAsInt(val2.b)))))
      [] op = "And" /\ val2.t = "bool" -> Ok(VBool(v1 /\ val2.b))
      [] op = "Or" /\ val2.t = "bool" -> Ok(VBool(v1 \/ val2.b))
      [] OTHER -> InvalidBinary(op, "bool", type_name(val2))

eval_binary(val1, op, val2) ==
    CASE val1.t = "int" -> IntOps(val1.i, op, val2)
      [] val1.t = "float" -> FloatOps(val1, op, val2)
      [] val1.t = "string" -> StringOps(val1.s, op, val2)
      [] val1.t = "bool" -> BoolOps(val1.b, op, val2)
      [] OTHER -> InvalidBinary(op, type_name(val1), type_name(val2))

\* ------------------------------------------------------------------------
\* AST: Expr (parser/ast/expr.rs), Statement and Func
\* ------------------------------------------------------------------------

ENone == [e |-> "None"]
EVar(id) == [e |-> "Var", id |-> id]
EBool(b) == [e |-> "Bool", b |-> b]
EInt(i) == [e |-> "Int", i |-> i]
EFloat(n, d) == [e |-> "Float", n |-> n, d |-> d]
EString(s) == [e |-> "String", s |-> s]
ECall(id, params) == [e |-> "Call", id |-> id, params |-> params]
EUnary(op, inner) == [e |-> op, inner |-> inner]
EBinary(op, lhs, rhs) == [e |-> op, lhs |-> lhs, rhs |-> rhs]
EAssign(id, expr) == [e |-> "Assign", id |-> id, expr |-> expr]
EWalrus(id, expr) == [e |-> "Walrus", id |-> id, expr |-> expr]

\* The three boxed fields of Expr::Ternary, in declaration order.
ETernary(f0, f1, f2) == [e |-> "Ternary", f0 |-> f0, f1 |-> f1, f2 |-> f2]

\* The node parse_ternaries builds from `lhs ? true_clause : false_clause`.
ParsedTernary(lhs, true_clause, false_clause) == ETernary(lhs, true_clause, false_clause)

SExpr(expr) == [s |-> "Expr", expr |-> expr]
SFunc(func) == [s |-> "Func", func |-> func]
SLetAssign(id, expr) == [s |-> "LetAssign", id |-> id, expr |-> expr]
SAssign(id, expr) == [s |-> "Assign", id |-> id, expr |-> expr]
SWhile(cond, body) == [s |-> "While", cond |-> cond, body |-> body]

\* A function definition: name, parameter names, body statements.
Func(ident, params, body) == [ident |-> ident, params |-> params, body |-> body]

\* FuncType::Custom and FuncType::Native
Custom(func) == [ft |-> "Custom", params |-> func.params, body |-> func.body]
Native(name, count) == [ft |-> "Native", name |-> name, count |-> count]

param_count(func) == IF func.ft = "Native" THEN func.count ELSE Len(func.params)

\* ------------------------------------------------------------------------
\* Scope: one frame, identifier -> Value and identifier -> function
\* ------------------------------------------------------------------------

EmptyMap == [x \in {} |-> VNone]

MapInsert(m, key, v) == [x \in DOMAIN m \cup {key} |-> IF x = key THEN v ELSE m[x]]

ScopeNew == [vars |-> EmptyMap, funcs |-> EmptyMap]

ScopeHasVar(scope, ident) == ident \in DOMAIN scope.vars

ScopeInitVar(scope, ident, value) == [scope EXCEPT !.vars = MapInsert(@, ident, value)]

ScopeHasFunc(scope, ident) == ident \in DOMAIN scope.funcs

ScopeInitFunc(scope, func) ==
    [scope EXCEPT !.funcs = MapInsert(@, func.ident, Custom(func))]

ScopeInitNativeFunc(scope, native) ==
    [scope EXCEPT !.funcs = MapInsert(@, native.name, native)]

\* ------------------------------------------------------------------------
\* Engine: the frame store.  E is the engine as one evaluation sees it:
\* g the global frame, n the stack of call frames (top last), log the trace
\* of what the evaluation has done so far, fuel what it may still spend.
\* ------------------------------------------------------------------------

Trace(E, event) == [E EXCEPT !.log = Append(@, event)]

Depth(E) == Len(E.n)

push_scope(E) == Trace([E EXCEPT !.n = Append(@, ScopeNew)], [ev |-> "push"])

pop_scope(E) ==
    IF E.n = <<>> THEN E
    ELSE Trace([E EXCEPT !.n = SubSeq(@, 1, Len(@) - 1)], [ev |-> "pop"])

\* The frames of the stack that bind ident as a variable
BindingFrames(E, ident) == {i \in 1..Len(E.n) : ScopeHasVar(E.n[i], ident)}

\* set_var writing to the innermost frame that already binds the name
set_var_Rebind(E, ident, value) ==
    LET B == BindingFrames(E, ident)
        top == IF B = {} THEN Len(E.n) ELSE CHOOSE i \in B : \A j \in B : j <= i
    IN  Trace(IF top = 0 THEN [E EXCEPT !.g = ScopeInitVar(@, ident, value)]
              ELSE [E EXCEPT !.n[top] = ScopeInitVar(@, ident, value)],
              [ev |-> "set_var", ident |-> ident, value |-> value, d |-> Depth(E)])

\* set_var writing to the global frame when the global frame binds the name
set_var_Global(E, ident, value) ==
    Trace(IF E.n = <<>> \/ ScopeHasVar(E.g, ident)
          THEN [E EXCEPT !.g = ScopeInitVar(@, ident, value)]
          ELSE [E EXCEPT !.n[Len(E.n)] = ScopeInitVar(@, ident, value)],
          [ev |-> "set_var", ident |-> ident, value |-> value, d |-> Depth(E)])

set_var(E, ident, value) ==
    Trace(IF E.n = <<>> THEN [E EXCEPT !.g = ScopeInitVar(@, ident, value)]
          ELSE [E EXCEPT !.n[Len(E.n)] = ScopeInitVar(@, ident, value)],
          [ev |-> "set_var", ident |-> ident, value |-> value, d |-> Depth(E)])

\* set_func registering every function in the global frame
set_func_Global(E, func) ==
    Trace([E EXCEPT !.g = ScopeInitFunc(@, func)],
          [ev |-> "set_func", ident |-> func.ident, d |-> Depth(E)])

set_func(E, func) ==
    Trace(IF E.n = <<>> THEN [E EXCEPT !.g = ScopeInitFunc(@, func)]
          ELSE [E EXCEPT !.n[Len(E.n)] = ScopeInitFunc(@, func)],
          [ev |-> "set_func", ident |-> func.ident, d |-> Depth(E)])

\* Some(value) as Ok(value), None as [k |-> "none"]
Absent == [k |-> "none"]

\* `for scope in self.nested_scopes.iter().rev()` from frame i down, then
\* the global frame
RECURSIVE ScanVar(_, _, _)
ScanVar(E, ident, i) ==
    IF i = 0 THEN (IF ScopeHasVar(E.g, ident) THEN Ok(E.g.vars[ident]) ELSE Absent)
    ELSE IF ScopeHasVar(E.n[i], ident) THEN Ok(E.n[i].vars[ident])
    ELSE ScanVar(E, ident, i - 1)

\* get_var iterating the stack without .rev(): outermost call frame first
get_var_Forward(E, ident) ==
    LET B == BindingFrames(E, ident)
    IN  IF B # {} THEN Ok(E.n[CHOOSE i \in B : \A j \in B : i <= j].vars[ident])
        ELSE ScanVar(E, ident, 0)

get_var(E, ident) == ScanVar(E, ident, Len(E.n))

UnknownFunction(ident) == Err([kind |-> "UnknownFunction", ident |-> ident])

RECURSIVE ScanFunc(_, _, _)
ScanFunc(E, ident, i) ==
    IF i = 0
    THEN (IF ScopeHasFunc(E.g, ident) THEN Ok(E.g.funcs[ident]) ELSE UnknownFunction(ident))
    ELSE IF ScopeHasFunc(E.n[i], ident) THEN Ok(E.n[i].funcs[ident])
    ELSE ScanFunc(E, ident, i - 1)

get_func(E, ident) == ScanFunc(E, ident, Len(E.n))

\* ------------------------------------------------------------------------
\* Native functions registered at construction
\* ------------------------------------------------------------------------

\* The declared parameter count of a native that takes any number of
\* arguments.
AnyCount == 1000

\* print: any number of arguments, returns None.
native_print == Native("print", AnyCount)

\* Engine::default registers print.  must stands for a native the host
\* registers at construction: one parameter, it returns its argument, and
\* its callback reports an error message when it is called without one.
native_must == Native("must", 1)

\* (func.native)(values): Ok(value) or the callback's error message
NativeCallback(name, values) ==
    IF name = "print" THEN Ok(VNone)
    ELSE IF values = <<>> THEN [k |-> "msg", message |-> "missing argument"]
    ELSE Ok(values[1])

\* ------------------------------------------------------------------------
\* Engine: the evaluator.  Each operator returns [E |-> engine, r |-> result].
\* A result is Ok(value) or Err(error) when the call returns; "outside" when
\* the number library yields no value, "nomatch" when no arm of a match
\* takes the node, "diverge" when the fuel is spent: then it does not return.
\* ------------------------------------------------------------------------

Out(E, r) == [E |-> E, r |-> r]

Diverge == [k |-> "diverge"]
NoMatch == [k |-> "nomatch"]

Returns(r) == r.k \in {"ok", "err"}

\* The trace entry of a call that returns: the function, the number of call
\* frames at entry and on return, and the result.
Returned(fn, d0, x) ==
    IF Returns(x.r)
    THEN Out(Trace(x.E, [ev |-> "ret", fn |-> fn, d0 |-> d0, d1 |-> Depth(x.E),
                         r |-> x.r]), x.r)
    ELSE x

ParameterCount(expected, found) ==
    Err([kind |-> "ParameterCount", expected |-> expected, found |-> found])

NativeCallError(message) == Err([kind |-> "NativeCallError", message |-> message])

UnknownVariable(ident) == Err([kind |-> "UnknownVariable", ident |-> ident])

TypeMismatch(expected, found) ==
    Err([kind |-> "TypeMismatch", expected |-> expected, found |-> found])

TooManyValues_Reversed(func, values) == param_count(func) > Len(values)

\* eval_func: `func.param_count() < values.len()`
TooManyValues(func, values) == param_count(func) < Len(values)

\* Binding every parameter, the ones without a value to None
RECURSIVE BindParams_PadNone(_, _, _)
BindParams_PadNone(E, params, values) ==
    IF params = <<>> THEN E
    ELSE BindParams_PadNone(
             set_var(E, Head(params), IF values = <<>> THEN VNone ELSE Head(values)),
             Tail(params), IF values = <<>> THEN <<>> ELSE Tail(values))

\* eval_func: `for (param, value) in func.params.iter().zip(values)`
RECURSIVE BindParams(_, _, _)
BindParams(E, params, values) ==
    IF params = <<>> \/ values = <<>> THEN E
    ELSE BindParams(set_var(E, Head(params), Head(values)), Tail(params), Tail(values))

KeepOutput_NonNone(output, value) == IF value = VNone THEN output ELSE value

\* eval_func: `Ok(value) => output = value`
KeepOutput(output, value) == value

BodyFailed_NoPop(E, r) == Out(E, r)

\* eval_func: a body statement failed: pop the frame, return the error
BodyFailed(E, r) == Out(pop_scope(E), r)

\* eval_func: the native callback failed: pop the frame, return the error
NativeFailed(E, message) == Out(pop_scope(E), NativeCallError(message))

Finished_NoPop(E, output) == Out(E, Ok(output))

\* eval_func: the end of a call that succeeded
Finished(E, output) == Out(pop_scope(E), Ok(output))

BinaryExprs == BinaryOpType
UnaryExprs == UnaryOpType

RECURSIVE eval(_, _)
RECURSIVE eval_statement(_, _)
RECURSIVE eval_func(_, _, _)
RECURSIVE EvalParams(_, _, _)
RECURSIVE EvalBody(_, _, _)
RECURSIVE EvalWhile(_, _)
RECURSIVE EvalWhileBody(_, _)
RECURSIVE EvalWhileBody_SkipErrors(_, _)
RECURSIVE EvalOperands_ShortCircuit(_, _, _, _)
RECURSIVE EvalOperands_RightFirst(_, _, _, _)
RECURSIVE EvalOperands(_, _, _, _)
RECURSIVE EvalCallExpr_ResolveFirst(_, _, _)
RECURSIVE EvalCallExpr(_, _, _)

\* Expr::Call: `for expr in params { values.push(self.eval(expr)?) }`
EvalParams(E, params, values) ==
    IF params = <<>> THEN Out(E, Ok(values))
    ELSE LET x == eval(E, Head(params))
         IN  IF x.r.k # "ok" THEN x
             ELSE EvalParams(x.E, Tail(params), Append(values, x.r.v))

\* format!("'{}'", value.type_name())
Quoted(name) == "'" \o name \o "'"

\* Expr::Ternary(lhs, cond, rhs)
EvalTernary(E, lhs, cond, rhs) ==
    LET c == eval(E, cond)
    IN  IF c.r.k # "ok" THEN c
        ELSE IF c.r.v.t # "bool"
        THEN Out(c.E, TypeMismatch("'bool'", Quoted(type_name(c.r.v))))
        ELSE IF c.r.v.b THEN eval(c.E, lhs) ELSE eval(c.E, rhs)

\* A call that resolves its callee before it evaluates the arguments
EvalCallExpr_ResolveFirst(E, ident, params) ==
    LET f == get_func(E, ident)
    IN  IF f.k # "ok" THEN Out(E, f)
        ELSE LET a == EvalParams(E, params, <<>>)
             IN  IF a.r.k # "ok" THEN a ELSE eval_func(a.E, ident, a.r.v)

\* Expr::Call(ident, params): the arguments, then `self.eval_func(ident, values)`
EvalCallExpr(E, ident, params) ==
    LET a == EvalParams(E, params, <<>>)
    IN  IF a.r.k # "ok" THEN a ELSE eval_func(a.E, ident, a.r.v)

\* And and Or that take their result from a left operand that decides it
EvalOperands_ShortCircuit(E, op, lhs, rhs) ==
    LET l == eval(E, lhs)
    IN  IF l.r.k # "ok" THEN l
        ELSE IF op = "And" /\ l.r.v = VBool(FALSE) THEN l
        ELSE IF op = "Or" /\ l.r.v = VBool(TRUE) THEN l
        ELSE LET r == eval(l.E, rhs)
             IN  IF r.r.k # "ok" THEN r
                 ELSE Out(r.E, eval_binary(l.r.v, op, r.r.v))

\* The right operand evaluated before the left one
EvalOperands_RightFirst(E, op, lhs, rhs) ==
    LET r == eval(E, rhs)
    IN  IF r.r.k # "ok" THEN r
        ELSE LET l == eval(r.E, lhs)
             IN  IF l.r.k # "ok" THEN l
                 ELSE Out(l.E, eval_binary(l.r.v, op, r.r.v))

\* Expr::Add .. Expr::Or: `let val1 = self.eval(lhs)?; let val2 =
\* self.eval(rhs)?; self.eval_binary(val1, BinaryOpType::.., val2)`
EvalOperands(E, op, lhs, rhs) ==
    LET l == eval(E, lhs)
    IN  IF l.r.k # "ok" THEN l
        ELSE LET r == eval(l.E, rhs)
             IN  IF r.r.k # "ok" THEN r
                 ELSE Out(r.E, eval_binary(l.r.v, op, r.r.v))

EvalExpr(E, expr) ==
    CASE expr.e = "None" -> Out(E, Ok(VNone))
      [] expr.e = "Bool" -> Out(E, Ok(VBool(expr.b)))
      [] expr.e = "Int" -> Out(E, Ok(VInt(expr.i)))
      [] expr.e = "Float" -> Out(E, Ok(VFloat(expr.n, expr.d)))
      [] expr.e = "String" -> Out(E, Ok(VString(expr.s)))
      [] expr.e = "Call" -> EvalCallExpr(E, expr.id, expr.params)
      [] expr.e \in UnaryExprs ->
            LET x == eval(E, expr.inner)
            IN  IF x.r.k # "ok" THEN x ELSE Out(x.E, eval_unary(expr.e, x.r.v))
      [] expr.e \in BinaryExprs -> EvalOperands(E, expr.e, expr.lhs, expr.rhs)
      [] expr.e = "Var" ->
            LET v == get_var(E, expr.id)
            IN  IF v.k = "ok" THEN Out(E, v) ELSE Out(E, UnknownVariable(expr.id))
      [] expr.e = "Walrus" ->
            LET x == eval(E, expr.expr)
            IN  IF x.r.k # "ok" THEN x ELSE Out(set_var(x.E, expr.id, x.r.v), x.r)
      [] expr.e = "Ternary" -> EvalTernary(E, expr.f0, expr.f1, expr.f2)
      [] OTHER -> Out(E, NoMatch)

eval(E, expr) ==
    Returned("eval", Depth(E),
             EvalExpr(Trace(E, [ev |-> "eval", node |-> expr, d |-> Depth(E)]), expr))

\* A body that runs every statement and keeps no error
EvalWhileBody_SkipErrors(E, body) ==
    IF body = <<>> THEN Out(E, Ok(VNone))
    ELSE LET x == eval_statement(E, Head(body))
         IN  IF ~Returns(x.r) THEN x ELSE EvalWhileBody_SkipErrors(x.E, Tail(body))

\* Statement::While: the body of one iteration, `self.eval_statement(..)?`
EvalWhileBody(E, body) ==
    IF body = <<>> THEN Out(E, Ok(VNone))
    ELSE LET x == eval_statement(E, Head(body))
         IN  IF x.r.k # "ok" THEN x ELSE EvalWhileBody(x.E, Tail(body))

\* Statement::While: `loop { match self.eval(&w.cond)? .. }`
EvalWhile(E, w) ==
    LET c == eval(E, w.cond)
    IN  IF c.r.k # "ok" THEN c
        ELSE IF c.r.v.t # "bool" THEN Out(c.E, TypeMismatch("bool", type_name(c.r.v)))
        ELSE IF ~c.r.v.b THEN Out(c.E, Ok(VNone))
        ELSE IF c.E.fuel = 0 THEN Out(c.E, Diverge)
        ELSE LET b == EvalWhileBody([c.E EXCEPT !.fuel = @ - 1], w.body)
             IN  IF b.r.k # "ok" THEN b ELSE EvalWhile(b.E, w)

EvalStatement(E, statement) ==
    CASE statement.s = "Expr" -> eval(E, statement.expr)
      [] statement.s = "Func" -> Out(set_func(E, statement.func), Ok(VNone))
      [] statement.s \in {"LetAssign", "Assign"} ->
            LET x == eval(E, statement.expr)
            IN  IF x.r.k # "ok" THEN x
                ELSE Out(set_var(x.E, statement.id, x.r.v), Ok(VNone))
      [] statement.s = "While" -> EvalWhile(E, statement)

eval_statement(E, statement) ==
    Returned("eval_statement", Depth(E),
             EvalStatement(Trace(E, [ev |-> "stmt", node |-> statement, d |-> Depth(E)]),
                           statement))

\* FuncType::Custom: `for statement in func.body.clone()`
EvalBody(E, body, output) ==
    IF body = <<>> THEN Finished(E, output)
    ELSE LET x == eval_statement(Trace(E, [ev |-> "body", node |-> Head(body),
                                           d |-> Depth(E)]), Head(body))
         IN  IF x.r.k = "ok" THEN EvalBody(x.E, Tail(body), KeepOutput(output, x.r.v))
             ELSE IF x.r.k = "err" THEN BodyFailed(x.E, x.r)
             ELSE x

EvalFunc(E, ident, values) ==
    LET f == get_func(E, ident)
    IN  IF f.k # "ok" THEN Out(E, f)
        ELSE IF TooManyValues(f.v, values)
        THEN Out(E, ParameterCount(param_count(f.v), Len(values)))
        ELSE IF E.fuel = 0 THEN Out(E, Diverge)
        ELSE LET P == push_scope([E EXCEPT !.fuel = @ - 1])
             IN  IF f.v.ft = "Native"
                 THEN LET c == NativeCallback(f.v.name,  values)
                          N == Trace(P, [ev |-> "native", name |-> f.v.name,
                                         values |-> values])
                      IN  IF c.k = "ok" THEN Finished(N, c.v)
                          ELSE NativeFailed(N, c.message)
                 ELSE LET B == BindParams(P, f.v.params, values)
                      IN  EvalBody(Trace(B, [ev |-> "frame", vars |-> B.n[Len(B.n)].vars,
                                             d |-> Depth(B)]), f.v.body, VNone)

eval_func(E, ident, values) ==
    Returned("eval_func", Depth(E),
             EvalFunc(Trace(E, [ev |-> "call", ident |-> ident, values |-> values]),
                      ident, values))

\* ------------------------------------------------------------------------
\* Parser: tokens, the token cursor and annotated nodes
\* ------------------------------------------------------------------------

\* A token of the cursor; the item a lexer error leaves in the stream is the
\* token "Error".
Token(t) == [t |-> t]
TIdent(str) == [t |-> "Ident", s |-> str]
TInt(i) == [t |-> "Int", i |-> i]
TBool(b) == [t |-> "Bool", b |-> b]

\* Token i of the input covers the range i-1 .. i.
Span(start, end) == [start |-> start, end |-> end]
TokenSpan(p) == Span(p, p + 1)

\* Node::new(span, item)
Node(span, item) == [span |-> span, item |-> item]

\* tokens.peek(): the token after position p, "End" for None
Peek(toks, p) == IF p < Len(toks) THEN toks[p + 1] ELSE Token("End")

\* PResult with the cursor position the parse function leaves
POk(node, p) == [k |-> "ok", node |-> node, p |-> p]
PErr(e, p) == [k |-> "err", e |-> e, p |-> p]

UnexpectedEnd(expected, toks) ==
    [kind |-> "UnexpectedEnd", expected |-> expected, data |-> Span(Len(toks), Len(toks))]

InvalidToken(p) == [kind |-> "InvalidToken", data |-> TokenSpan(p)]

UnexpectedToken(expected, found, p) ==
    [kind |-> "UnexpectedToken", expected |-> expected, found |-> found,
     data |-> TokenSpan(p)]

UnclosedBrace(open_span) == [kind |-> "UnclosedBrace", data |-> open_span]

InvalidAssignment(assign_span) == [kind |-> "InvalidAssignment", data |-> assign_span]

\* tokens.expect_next(expected) / tokens.expect_peek(expected): the token, or
\* the error of the end of input or of the lexer
Expect(toks, p, expected) ==
    IF p >= Len(toks) THEN PErr(UnexpectedEnd(expected, toks), p)
    ELSE IF toks[p + 1].t = "Error" THEN PErr(InvalidToken(p), p + 1)
    ELSE [k |-> "ok", tok |-> toks[p + 1], p |-> p]

\* The Expr a node holds with every annotation removed, as Engine::eval
\* reads it through Deref
RECURSIVE Item(_)
ItemSeq(nodes) == [i \in DOMAIN nodes |-> Item(nodes[i])]
Item(node) ==
    LET x == node.item
    IN  CASE x.e \in {"None", "Var", "Bool", "Int", "Float", "String"} -> x
          [] x.e = "Call" -> ECall(x.id.item, ItemSeq(x.params))
          [] x.e \in UnaryOpType -> EUnary(x.e, Item(x.inner))
          [] x.e \in BinaryOpType -> EBinary(x.e, Item(x.lhs), Item(x.rhs))
          [] x.e = "Assign" -> EAssign(x.id.item, Item(x.expr))
          [] x.e = "Walrus" -> EWalrus(x.id.item, Item(x.expr))
          [] x.e = "Ternary" -> ETernary(Item(x.f0), Item(x.f1), Item(x.f2))

\* ------------------------------------------------------------------------
\* Parser: Expr::parse (parser/ast/expr.rs)
\* ------------------------------------------------------------------------

\* `step?` and what follows it: the Err of a step that failed, else the rest
\* of the function applied to the step's result.  The step is evaluated
\* once.
Try(step, Then(_)) ==
    CHOOSE y \in {IF x.k # "ok" THEN x ELSE Then(x) : x \in {step}} : TRUE

RECURSIVE parse(_, _)
RECURSIVE parse_atom(_, _)
RECURSIVE parse_var_or_fn(_, _, _)
RECURSIVE ParseParams(_, _, _)
RECURSIVE parse_powers(_, _, _)
RECURSIVE parse_products(_, _, _)
RECURSIVE parse_sums(_, _, _)
RECURSIVE parse_comparisons(_, _, _)
RECURSIVE parse_ands(_, _, _)
RECURSIVE parse_ors(_, _, _)
RECURSIVE parse_ternaries(_, _, _)
RECURSIVE parse_assign(_, _, _)

\* `Self::parse_assign(lhs, tokens) // start parsing at lowest precedence`
parse_with_lhs(lhs, toks, p) == parse_assign(lhs, toks, p)

parse(toks, p) ==
    Try(parse_atom(toks, p), LAMBDA lhs : parse_with_lhs(lhs.node, toks, lhs.p))

\* parse_var_or_fn: the loop over the parameters of a call
ParseParams(toks, p, params) ==
    Try(parse(toks, p), LAMBDA x :
        Try(Expect(toks, x.p, "',' or ')'"), LAMBDA t :
            IF t.tok.t = "Comma" THEN ParseParams(toks, x.p + 1, Append(params, x.node))
            ELSE [k |-> "ok", params |-> Append(params, x.node), p |-> x.p]))

\* parse_var_or_fn: the parameters between the parentheses
CallParams(toks, p) ==
    Try(Expect(toks, p, "expression or ')'"), LAMBDA t :
        IF t.tok.t = "CloseParen" THEN [k |-> "ok", params |-> <<>>, p |-> p]
        ELSE ParseParams(toks, p, <<>>))

parse_var_or_fn(lhs, toks, p) ==
    LET tok == Peek(toks, p)
    IN  IF tok.t = "Error" THEN PErr(InvalidToken(p), p)
        ELSE IF tok.t # "OpenParen" THEN POk(Node(lhs.span, EVar(lhs.item)), p)
        ELSE Try(CallParams(toks, p + 1), LAMBDA a :
                 Try(Expect(toks, a.p, "')'"), LAMBDA c :
                     IF c.tok.t # "CloseParen"
                     THEN PErr(UnexpectedToken("')'", c.tok.t, a.p), a.p + 1)
                     ELSE POk(Node(Span(lhs.span.start, TokenSpan(a.p).end),
                                   ECall(lhs, a.params)), a.p + 1)))

\* parse_atom, Token::Not and Token::Sub: the operand of a prefix operator
PrefixOperand(toks, p) ==
    Try(parse_atom(toks, p), LAMBDA nested : parse_powers(nested.node, toks, nested.p))

\* A parenthesized expression that keeps the span of the expression inside
Braces_InnerSpan(open_span, toks, p) ==
    Try(parse(toks, p), LAMBDA inner :
        LET close == Peek(toks, inner.p)
        IN  IF close.t = "Error" THEN PErr(InvalidToken(inner.p), inner.p + 1)
            ELSE IF close.t = "CloseParen" THEN POk(inner.node, inner.p + 1)
            ELSE PErr(UnclosedBrace(open_span), inner.p))

\* parse_atom, Token::OpenParen: the expression and the closing token
Braces(open_span, toks, p) ==
    Try(parse(toks, p), LAMBDA inner :
        LET close == Peek(toks, inner.p)
        IN  IF close.t = "Error" THEN PErr(InvalidToken(inner.p), inner.p + 1)
            ELSE IF close.t = "CloseParen"
            THEN POk(Node(Span(open_span.start, TokenSpan(inner.p).end), inner.node.item),
                     inner.p + 1)
            ELSE PErr(UnclosedBrace(open_span), inner.p))

parse_atom(toks, p) ==
    Try(Expect(toks, p, "expression"), LAMBDA t :
        LET tok == t.tok
            span == TokenSpan(p)
            q == p + 1
        IN  CASE tok.t = "None" -> POk(Node(span, ENone), q)
              [] tok.t = "Int" -> POk(Node(span, EInt(tok.i)), q)
              [] tok.t = "UFloat" -> POk(Node(span, EFloat(tok.n, tok.d)), q)
              [] tok.t = "Bool" -> POk(Node(span, EBool(tok.b)), q)
              [] tok.t = "String" -> POk(Node(span, EString(tok.s)), q)
              [] tok.t = "Ident" -> parse_var_or_fn(Node(span, tok.s), toks, q)
              [] tok.t \in {"Not", "Sub"} ->
                    Try(PrefixOperand(toks, q), LAMBDA nested :
                        POk(Node(Span(span.start, nested.node.span.end),
                                 EUnary(IF tok.t = "Not" THEN "Not" ELSE "Neg", nested.node)),
                            nested.p))
              [] tok.t = "OpenParen" -> Braces(span, toks, q)
              [] OTHER -> PErr(UnexpectedToken("expression", tok.t, p), q))

\* The node of a binary operator over two parsed operands
BinaryNode(op, lhs, rhs) == Node(Span(lhs.span.start, rhs.span.end), EBinary(op, lhs, rhs))

\* `Expr::parse_atom(tokens)?` then `next(rhs, tokens)?`: the right operand
\* of an operator, parsed at the tier `next`
Operand(next(_, _, _), toks, p) ==
    Try(parse_atom(toks, p), LAMBDA rhs : next(rhs.node, toks, rhs.p))

\* The right operand of `**` taken as a single atom
PowerOperand_Atom(toks, p) == parse_atom(toks, p)

\* parse_powers: `Self::parse_powers(rhs, tokens)? // parse right to left`
PowerOperand(toks, p) == Operand(parse_powers, toks, p)

parse_powers(lhs, toks, p) ==
    LET tok == Peek(toks, p)
    IN  IF tok.t = "Error" THEN PErr(InvalidToken(p), p)
        ELSE IF tok.t # "Pow" THEN POk(lhs, p)
        ELSE Try(PowerOperand(toks, p + 1), LAMBDA rhs :
                 POk(BinaryNode("Pow", lhs, rhs.node), rhs.p))

ProductTokens == {"Mul", "Div", "Mod"}

parse_products(lhs, toks, p) ==
    LET tok == Peek(toks, p)
    IN  IF tok.t = "Error" THEN PErr(InvalidToken(p), p)
        ELSE IF tok.t \notin ProductTokens THEN parse_powers(lhs, toks, p)
        ELSE Try(Operand(parse_powers, toks, p + 1), LAMBDA rhs :
                 parse_with_lhs(BinaryNode(tok.t, lhs, rhs.node), toks, rhs.p))

SumTokens == {"Add", "Sub"}

parse_sums(lhs, toks, p) ==
    LET tok == Peek(toks, p)
    IN  IF tok.t = "Error" THEN PErr(InvalidToken(p), p)
        ELSE IF tok.t \notin SumTokens THEN parse_products(lhs, toks, p)
        ELSE Try(Operand(parse_products, toks, p + 1), LAMBDA rhs :
                 parse_with_lhs(BinaryNode(tok.t, lhs, rhs.node), toks, rhs.p))

ComparisonTokens == {"Eq", "Lt", "Gt", "NEq", "LtEq", "GtEq"}

parse_comparisons(lhs, toks, p) ==
    LET tok == Peek(toks, p)
    IN  IF tok.t = "Error" THEN PErr(InvalidToken(p), p)
        ELSE IF tok.t \notin ComparisonTokens THEN parse_sums(lhs, toks, p)
        ELSE Try(Operand(parse_sums, toks, p + 1), LAMBDA rhs :
                 parse_comparisons(BinaryNode(tok.t, lhs, rhs.node), toks, rhs.p))

parse_ands(lhs, toks, p) ==
    LET tok == Peek(toks, p)
    IN  IF tok.t = "Error" THEN PErr(InvalidToken(p), p)
        ELSE IF tok.t # "And" THEN parse_comparisons(lhs, toks, p)
        ELSE Try(Operand(parse_comparisons, toks, p + 1), LAMBDA rhs :
                 parse_with_lhs(BinaryNode("And", lhs, rhs.node), toks, rhs.p))

\* parse_ors matches Token::And and builds Expr::And
parse_ors(lhs, toks, p) ==
    LET tok == Peek(toks, p)
    IN  IF tok.t = "Error" THEN PErr(InvalidToken(p), p)
        ELSE IF tok.t # "And" THEN parse_ands(lhs, toks, p)
        ELSE Try(Operand(parse_ands, toks, p + 1), LAMBDA rhs :
                 parse_with_lhs(BinaryNode("And", lhs, rhs.node), toks, rhs.p))

\* parse_ternaries: the token after the true clause must be Token::Colon
TernaryDelimiter(toks, p) ==
    Try(Expect(toks, p, "ternary delimiter ':'"), LAMBDA colon :
        IF colon.tok.t = "Colon" THEN colon
        ELSE PErr(UnexpectedToken("ternary delimiter ':'", colon.tok.t, p), p + 1))

parse_ternaries(lhs, toks, p) ==
    LET tok == Peek(toks, p)
    IN  IF tok.t = "Error" THEN PErr(InvalidToken(p), p)
        ELSE IF tok.t # "Question" THEN parse_ors(lhs, toks, p)
        ELSE Try(Operand(parse_ternaries, toks, p + 1), LAMBDA true_clause :
                 Try(TernaryDelimiter(toks, true_clause.p), LAMBDA colon :
                     Try(Operand(parse_ternaries, toks, true_clause.p + 1),
                         LAMBDA false_clause :
                             POk(Node(Span(lhs.span.start, false_clause.node.span.end),
                                      ParsedTernary(lhs, true_clause.node,
                                                    false_clause.node)),
                                 false_clause.p))))

parse_assign(lhs, toks, p) ==
    LET tok == Peek(toks, p)
        assign_span == TokenSpan(p)
        ident == Node(lhs.span, lhs.item.id)
    IN  IF tok.t = "Error" THEN PErr(InvalidToken(p), p)
        ELSE IF tok.t \notin {"Assign", "Walrus"} THEN parse_ternaries(lhs, toks, p)
        ELSE IF lhs.item.e # "Var" THEN PErr(InvalidAssignment(assign_span), p + 1)
        ELSE Try(Operand(parse_assign, toks, p + 1), LAMBDA rhs :
                 POk(Node(Span(ident.span.start, rhs.node.span.end),
                          IF tok.t = "Assign" THEN EAssign(ident, rhs.node)
                          ELSE EWalrus(ident, rhs.node)), rhs.p))

\* ------------------------------------------------------------------------
\* BobaCache (cache.rs)
\* ------------------------------------------------------------------------

\* The number of values of a u32
U32 == 2 ^ IdBits

\* A call that panics does not return
Panic == [k |-> "panic"]

\* CacheId::build: `Self((id as u64) << 32 | (index as u64))`, a panic when
\* the index does not fit a u32
CacheId_build(id, index) ==
    IF index < U32 THEN Ok(id * U32 + index) ELSE Panic

\* CacheId::cache_id: `(self.0 >> 32) as u32`
CacheId_cache_id(id) == (id \div U32) % U32

\* CacheId::uindex: `(self.0 as u32) as usize`
CacheId_uindex(id) == id % U32

\* CacheData { label, source, id }; text() is the text the source was built
\* from
CacheData(label, text, id) == [label |-> label, text |-> text, id |-> id]

\* The slots in which the host keeps its caches, and an empty slot
Slots == 1..MaxCaches
NoCache == [live |-> FALSE]

\* BobaCache::new with the counter at count: `COUNTER.fetch_add(1, ..)`
\* returns the value before the addition, and the addition wraps
BobaCache_new(count) ==
    [cache |-> [live |-> TRUE, cache_id |-> count, store |-> <<>>],
     counter |-> (count + 1) % U32]

\* BobaCache::load; `self.store.get(index)` is None past the end
BobaCache_load(cache, id) ==
    IF CacheId_cache_id(id) # cache.cache_id THEN Absent
    ELSE IF CacheId_uindex(id) + 1 \in DOMAIN cache.store
    THEN Ok(cache.store[CacheId_uindex(id) + 1])
    ELSE Absent

\* BobaCache::store: the cache after the push and the entry returned
BobaCache_store(cache, label, data) ==
    LET id == CacheId_build(cache.cache_id, Len(cache.store))
        pushed == [cache EXCEPT !.store = Append(@, CacheData(label, data, id.v))]
    IN  IF id.k # "ok" THEN [cache |-> cache, r |-> Panic]
        ELSE [cache |-> pushed, r |-> Ok(pushed.store[CacheId_uindex(id.v) + 1])]

\* ------------------------------------------------------------------------
\* Programs the host runs
\* ------------------------------------------------------------------------

\* fn f() { y }
DefF == Func("f", <<>>, <<SExpr(EVar("y"))>>)

\* fn g(y) { y }
DefG == Func("g", <<"y">>, <<SExpr(EVar("y"))>>)

\* fn t() { }
DefEmpty == Func("t", <<>>, <<>>)

\* fn t() { 1; let x = 2 }
DefLet == Func("t", <<>>, <<SExpr(EInt(1)), SLetAssign("x", EInt(2))>>)

\* fn t() { 1; x = 2 }
DefAssign == Func("t", <<>>, <<SExpr(EInt(1)), SAssign("x", EInt(2))>>)

\* fn t() { 1; fn f() { 2 } }
DefInner == Func("t", <<>>, <<SExpr(EInt(1)), SFunc(Func("f", <<>>, <<SExpr(EInt(2))>>))>>)

\* fn t(x) { 1; while x { x = false } }
DefWhile ==
    Func("t", <<"x">>,
         <<SExpr(EInt(1)), SWhile(EVar("x"), <<SAssign("x", EBool(FALSE))>>)>>)

\* fn t() { let y = 1; 2; y + 2 }
DefTail ==
    Func("t", <<>>,
         <<SLetAssign("y", EInt(1)), SExpr(EInt(2)), SExpr(EBinary("Add", EVar("y"), EInt(2)))>>)

\* fn t(y) { x := 2; f() }: f runs with t's frame below its own
DefOuter == Func("t", <<"y">>, <<SExpr(EWalrus("x", EInt(2))), SExpr(ECall("f", <<>>))>>)

\* fn t(x) { x ? t(false) : 0 } as the evaluator reads the fields: it
\* calls itself once when x is true
DefRec ==
    Func("t", <<"x">>,
         <<SExpr(ETernary(ECall("t", <<EBool(FALSE)>>), EVar("x"), EInt(0)))>>)

\* fn t() { t() }: never returns
DefLoop == Func("t", <<>>, <<SExpr(ECall("t", <<>>))>>)

\* fn h() { 2 } and fn k() { h() }: defined only inside bodies
DefH == Func("h", <<>>, <<SExpr(EInt(2))>>)
DefK == Func("k", <<>>, <<SExpr(ECall("h", <<>>))>>)

\* fn t() { fn h() { 2 }; h() }
DefNested == Func("t", <<>>, <<SFunc(DefH), SExpr(ECall("h", <<>>))>>)

\* fn t() { fn h() { 2 }; fn k() { h() }; k() }: h is called from k's frame
DefNestedInner == Func("t", <<>>, <<SFunc(DefH), SFunc(DefK), SExpr(ECall("k", <<>>))>>)

FuncDefs ==
    {DefF, DefG, DefEmpty, DefLet, DefAssign, DefInner, DefWhile, DefTail, DefOuter,
     DefRec, DefLoop, DefNested, DefNestedInner}

\* The operands a ternary is built from
TernaryConds == {EBool(TRUE), EBool(FALSE), EInt(0)}
TernaryClauses ==
    {EInt(1), EBool(TRUE), EBool(FALSE), EVar("z"), EWalrus("x", EInt(2))}

Ternaries ==
    {ParsedTernary(c, a, b) : c \in TernaryConds, a \in TernaryClauses, b \in TernaryClauses}

Calls ==
    {ECall("f", <<>>), ECall("g", <<>>), ECall("g", <<EInt(1)>>),
     ECall("g", <<EInt(1), EInt(2)>>), ECall("t", <<>>), ECall("t", <<EBool(TRUE)>>),
     ECall("t", <<EInt(1)>>), ECall("must", <<>>), ECall("must", <<EInt(1)>>),
     ECall("print", <<EInt(1), EInt(2)>>), ECall("h", <<>>),
     ECall("g", <<EWalrus("x", EInt(1)), EVar("z")>>)}

\* `l and r`, `l or r`: a left operand that is false, true or not a Bool; a
\* right operand that fails (z is never bound), binds x, or is a literal
LogicLefts == {EBool(FALSE), EBool(TRUE), EInt(1)}
LogicRights == {EVar("z"), EWalrus("x", EBool(TRUE)), EBool(TRUE), EInt(2)}
Logics == {EBinary(op, l, r) : op \in LogicOps, l \in LogicLefts, r \in LogicRights}

\* Operands and arguments that bind and read x
Bind1 == EWalrus("x", EInt(1))
Bind2 == EWalrus("x", EInt(2))
Orders ==
    {EBinary("Add", Bind1, EVar("x")), EBinary("Add", EVar("x"), Bind1),
     EBinary("Sub", Bind2, Bind1), EBinary("Sub", Bind1, Bind2),
     EBinary("Sub", EBinary("Mul", Bind2, EVar("x")), Bind1),
     ECall("print", <<Bind1, EVar("x")>>), ECall("print", <<EVar("x"), Bind1>>),
     ECall("print", <<Bind2, Bind1, EVar("x")>>), ECall("g", <<Bind2>>),
     Bind1, Bind2, EWalrus("x", EVar("z"))}

\* `t() + h()`, `t() + f()`: a call of a function t's body may have defined,
\* made after t has returned
AfterCalls ==
    {EBinary("Add", ECall("t", <<>>), ECall("h", <<>>)),
     EBinary("Add", ECall("t", <<>>), ECall("f", <<>>))}

\* Calls and operators that fail after an argument or operand bound x: h is
\* not defined, g takes one parameter, z is never bound
Failures ==
    {ECall("h", <<Bind1>>), ECall("h", <<EVar("z")>>), ECall("h", <<Bind1, EVar("z")>>),
     ECall("g", <<Bind1, EInt(2)>>), ECall("g", <<Bind2, EVar("z")>>),
     ECall("print", <<Bind2, EVar("z"), Bind1>>),
     EBinary("Add", Bind1, EVar("z")), EBinary("Add", Bind2, ECall("h", <<>>))}

Exprs ==
    Ternaries \cup Calls \cup Logics \cup Orders \cup AfterCalls \cup Failures
    \cup {EVar("x"), EVar("y"), EWalrus("y", EInt(1))}

\* while x { x = false }; while y { }; while x { x = y; y = false };
\* while x { y = 2; z; x = false } where z is never bound
Whiles ==
    {SWhile(EVar("x"), <<SAssign("x", EBool(FALSE))>>),
     SWhile(EVar("y"), <<>>),
     SWhile(EVar("x"), <<SAssign("x", EVar("y")), SAssign("y", EBool(FALSE))>>),
     SWhile(EVar("x"), <<SAssign("y", EInt(2)), SExpr(EVar("z")), SAssign("x", EBool(FALSE))>>)}

Statements ==
    {SFunc(d) : d \in FuncDefs} \cup {SExpr(e) : e \in Calls} \cup Whiles
    \cup {SLetAssign("y", EInt(1)), SAssign("x", EBool(TRUE)), SAssign("y", EBool(TRUE))}

FuncIdents == {"f", "g", "t", "must", "print", "h"}
ArgValues == {VInt(1), VBool(TRUE)}
ValueLists ==
    {<<>>} \cup {<<a>> : a \in ArgValues} \cup {<<a, b>> : a \in ArgValues, b \in ArgValues}

\* ------------------------------------------------------------------------
\* The engine as a state machine
\* ------------------------------------------------------------------------

\* Engine::default
EngineDefault ==
    [global_scope |-> ScopeInitNativeFunc(ScopeInitNativeFunc(ScopeNew, native_print),
                                          native_must),
     nested_scopes |-> <<>>]

\* No call is in progress and no result is waiting for the host
Idle == [op |-> "idle"]

Init ==
    /\ global_scope = EngineDefault.global_scope
    /\ nested_scopes = EngineDefault.nested_scopes
    /\ call = Idle
    /\ frame_bound = {}
    /\ COUNTER = 0
    /\ caches = [c \in Slots |-> NoCache]
    /\ returned = [c \in Slots |-> <<>>]

\* The engine at the start of a call by the host
Start == [g |-> global_scope, n |-> nested_scopes, log |-> <<>>, fuel |-> Fuel]

Pre == [g |-> global_scope, n |-> nested_scopes]

\* The names an evaluation bound inside a call frame
FrameBound(log) ==
    {log[i].ident : i \in {j \in DOMAIN log : log[j].ev = "set_var" /\ log[j].d > 0}}

\* A call that returns leaves its result, and what it did, in `call`
Return(op, arg, x) ==
    /\ call = Idle
    /\ Returns(x.r)
    /\ global_scope' = x.E.g
    /\ nested_scopes' = x.E.n
    /\ call' = [op |-> op, arg |-> arg, pre |-> Pre, post |-> [g |-> x.E.g, n |-> x.E.n],
                r |-> x.r, log |-> x.E.log]
    /\ frame_bound' = frame_bound \cup FrameBound(x.E.log)
    /\ UNCHANGED cache_vars

EvalStatementCall == \E st \in Statements : Return("eval_statement", st, eval_statement(Start, st))

EvalCall == \E expr \in Exprs : Return("eval", expr, eval(Start, expr))

EvalFuncCall ==
    \E ident \in FuncIdents, values \in ValueLists :
        Return("eval_func", [ident |-> ident, values |-> values],
               eval_func(Start, ident, values))

\* The host takes the result of the call that returned
TakeResult ==
    /\ call # Idle
    /\ call' = Idle
    /\ UNCHANGED <<global_scope, nested_scopes, frame_bound, cache_vars>>

\* --- the frame store used directly by the host (specification SpecScope)

ScopeIdents == {"x", "y"}
\* The bindings the host writes with set_var
ScopeBindings ==
    {[ident |-> "x", value |-> VInt(1)], [ident |-> "x", value |-> VInt(2)],
     [ident |-> "y", value |-> VInt(1)]}
ScopeFuncs == {Func("f", <<>>, <<SExpr(EInt(1))>>), Func("f", <<"x">>, <<>>)}

\* A call of the frame-store interface: it always returns
Done(op, arg, E, r) ==
    /\ call = Idle
    /\ global_scope' = E.g
    /\ nested_scopes' = E.n
    /\ call' = [op |-> op, arg |-> arg, pre |-> Pre, post |-> [g |-> E.g, n |-> E.n],
                r |-> r, log |-> E.log]
    /\ UNCHANGED <<frame_bound, cache_vars>>

PushScope ==
    /\ Len(nested_scopes) < MaxDepth
    /\ Done("push_scope", <<>>, push_scope(Start), Ok(VNone))

\* pop_scope returns whether a frame was popped
PopScope == Done("pop_scope", <<>>, pop_scope(Start), Ok(VBool(nested_scopes # <<>>)))

SetVar ==
    \E b \in ScopeBindings : Done("set_var", b, set_var(Start, b.ident, b.value), Ok(VNone))

SetFunc == \E func \in ScopeFuncs : Done("set_func", func, set_func(Start, func), Ok(VNone))

GetVar == \E ident \in ScopeIdents : Done("get_var", ident, Start, get_var(Start, ident))

GetFunc == \E ident \in {"f", "print"} : Done("get_func", ident, Start, get_func(Start, ident))

NextScope == PushScope \/ PopScope \/ SetVar \/ SetFunc \/ GetVar \/ GetFunc \/ TakeResult

SpecScope == Init /\ [][NextScope]_vars

\* --- eval_binary on its own (specification SpecBinary)

BinStrings == {<<>>, <<97>>, <<97, 98>>}

BinValues ==
    {VNone} \cup {VBool(b) : b \in BOOLEAN} \cup {VInt(i) : i \in -MaxInt..MaxInt}
    \cup {VFloat(n, d) : n \in -MaxInt..MaxInt, d \in 1..2}
    \cup {VString(str) : str \in BinStrings}

\* One application of eval_binary that yields a result
EvalBinary ==
    /\ call = Idle
    /\ \E val1 \in BinValues, op \in BinaryOpType, val2 \in BinValues :
           LET r == eval_binary(val1, op, val2)
           IN  /\ Returns(r)
               /\ call' = [op |-> "eval_binary", val1 |-> val1, bop |-> op,
                           val2 |-> val2, r |-> r]
    /\ UNCHANGED <<global_scope, nested_scopes, frame_bound, cache_vars>>

NextBinary == EvalBinary \/ TakeResult

SpecBinary == Init /\ [][NextBinary]_vars

\* --- Expr::parse on its own, and the host evaluating the node it got
\* (specification SpecParse)

\* A source text as its tokens, with the tree its operators denote when
\* each named construct is taken whole
Ident(str) == [toks |-> <<TIdent(str)>>, tree |-> EVar(str)]
IntLit(i) == [toks |-> <<TInt(i)>>, tree |-> EInt(i)]
Infix(x, op, y) ==
    [toks |-> x.toks \o <<Token(op)>> \o y.toks, tree |-> EBinary(op, x.tree, y.tree)]
Prefix(tok, op, x) == [toks |-> <<Token(tok)>> \o x.toks, tree |-> EUnary(op, x.tree)]
Parens(x) == [toks |-> <<Token("OpenParen")>> \o x.toks \o <<Token("CloseParen")>>,
              tree |-> x.tree]
CallOf(str, x, y) ==
    [toks |-> <<TIdent(str), Token("OpenParen")>> \o x.toks \o <<Token("Comma")>> \o y.toks
              \o <<Token("CloseParen")>>,
     tree |-> ECall(str, <<x.tree, y.tree>>)]
CallNone(str) ==
    [toks |-> <<TIdent(str), Token("OpenParen"), Token("CloseParen")>>,
     tree |-> ECall(str, <<>>)]

\* Binary operator tokens and the two assignment tokens
OperatorTokens == BinaryOpType \cup {"Assign", "Walrus"}

\* `o1 op o2`
Chain2(o1, op, o2) ==
    [form |-> "chain", operands |-> <<o1, o2>>, ops |-> <<op>>,
     toks |-> o1.toks \o <<Token(op)>> \o o2.toks]

\* `o1 op1 o2 op2 o3`
Chain3(o1, op1, o2, op2, o3) ==
    [form |-> "chain", operands |-> <<o1, o2, o3>>, ops |-> <<op1, op2>>,
     toks |-> o1.toks \o <<Token(op1)>> \o o2.toks \o <<Token(op2)>> \o o3.toks]

\* `c ? x : y`
TernarySource(c, x, y) ==
    [form |-> "ternary", operands |-> <<c, x, y>>, ops |-> <<>>,
     toks |-> c.toks \o <<Token("Question")>> \o x.toks \o <<Token("Colon")>> \o y.toks]

\* Any other token sequence
Tokens(toks) == [form |-> "tokens", operands |-> <<>>, ops |-> <<>>, toks |-> toks]

LeftOperands ==
    {Ident("a"), IntLit(1), Prefix("Sub", "Neg", Ident("a")), Prefix("Not", "Not", Ident("a")),
     CallNone("f"), Infix(Ident("a"), "Add", Ident("x")), Infix(Ident("a"), "Lt", Ident("x")),
     Infix(Ident("a"), "Pow", Ident("x")), Parens(Ident("a"))}

MiddleOperands ==
    {Ident("b"), Infix(Ident("b"), "Add", Ident("x")), Infix(Ident("b"), "Mul", Ident("x")),
     Infix(Ident("b"), "Pow", Ident("x")), Prefix("Sub", "Neg", Ident("b"))}

Chains ==
    {Chain2(o1, op, o2) : o1 \in LeftOperands, op \in OperatorTokens,
                          o2 \in {Ident("b"), IntLit(2)}}
    \cup {Chain3(Ident("a"), op1, o2, op2, Ident("c")) :
              op1 \in OperatorTokens, o2 \in MiddleOperands, op2 \in OperatorTokens}
    \cup {Chain3(IntLit(1), "Lt", IntLit(2), "Lt", IntLit(0)),
          Chain3(IntLit(7), "Sub", IntLit(2), "Sub", IntLit(1)),
          Chain3(IntLit(7), "Sub", Infix(IntLit(2), "Mul", IntLit(2)), "Sub", IntLit(1))}

TernarySources ==
    {TernarySource(c, x, y) :
         c \in {Ident("a"), [toks |-> <<TBool(TRUE)>>, tree |-> EBool(TRUE)], Infix(Ident("a"), "Lt", Ident("b")),
                Infix(IntLit(1), "Lt", IntLit(2))},
         x \in {Ident("x"), IntLit(1)},
         y \in {Ident("y"), IntLit(2), Infix(Ident("y"), "Add", IntLit(1))}}

OtherSources ==
    {Tokens(<<>>), Tokens(<<Token("None")>>), Tokens(<<Token("Error")>>),
     Tokens(<<TIdent("a"), Token("Error")>>),
     Tokens(<<[t |-> "UFloat", n |-> 1, d |-> 2], Token("Add"), [t |-> "String", s |-> <<97>>]>>),
     Tokens(<<Token("CloseParen")>>), Tokens(<<Token("OpenParen"), TIdent("a")>>),
     Tokens(<<Token("OpenParen"), TIdent("a"), Token("Error")>>),
     Tokens(CallOf("f", Ident("a"), IntLit(1)).toks),
     Tokens(CallOf("print", Infix(Ident("x"), "Walrus", IntLit(1)), Ident("x")).toks),
     Tokens(<<TIdent("f"), Token("OpenParen")>>),
     Tokens(<<TIdent("f"), Token("OpenParen"), TIdent("a")>>),
     Tokens(<<TIdent("f"), Token("OpenParen"), TIdent("a"), Token("Colon")>>),
     Tokens(<<TIdent("a"), Token("Question"), TIdent("x")>>),
     Tokens(<<TIdent("a"), Token("Question"), TIdent("x"), Token("Comma")>>),
     Tokens(Parens(Infix(Ident("a"), "Add", Ident("b"))).toks \o <<Token("Mul"), TIdent("c")>>),
     Tokens(Parens(Parens(Ident("a"))).toks),
     Tokens(Prefix("Sub", "Neg", Parens(Prefix("Not", "Not", CallNone("f")))).toks),
     Tokens(Infix(CallOf("f", Parens(Ident("a")), IntLit(1)), "Add", Parens(Ident("b"))).toks),
     Tokens(Infix(Ident("x"), "Assign", Parens(Infix(Ident("y"), "Walrus", IntLit(1)))).toks),
     Tokens(<<Token("OpenParen")>>
            \o TernarySource(Ident("a"), Parens(Ident("x")), IntLit(2)).toks
            \o <<Token("CloseParen")>>)}

Sources == Chains \cup TernarySources \cup OtherSources

\* The host parses one expression from a token stream
Parse ==
    /\ call = Idle
    /\ \E src \in Sources :
           LET x == parse(src.toks, 0)
           IN  call' = [op |-> "parse", arg |-> src, r |-> x,
                        rest |-> Len(src.toks) - x.p]
    /\ UNCHANGED <<global_scope, nested_scopes, frame_bound, cache_vars>>

\* The host evaluates the node the parser returned
EvalParsed ==
    /\ call.op = "parse"
    /\ call.r.k = "ok"
    /\ LET expr == Item(call.r.node)
           x == eval(Start, expr)
       IN  /\ Returns(x.r)
           /\ global_scope' = x.E.g
           /\ nested_scopes' = x.E.n
           /\ call' = [op |-> "eval_parsed", arg |-> call.arg, expr |-> expr, pre |-> Pre,
                       post |-> [g |-> x.E.g, n |-> x.E.n], r |-> x.r, log |-> x.E.log]
           /\ frame_bound' = frame_bound \cup FrameBound(x.E.log)
    /\ UNCHANGED cache_vars

NextParse == Parse \/ EvalParsed \/ TakeResult

SpecParse == Init /\ [][NextParse]_vars

\* --- the cache used by the host (specification SpecCache)

Labels == {"main", "lib"}
Texts == {"x", "y"}

\* `BobaCache::new()` into a free slot
New ==
    /\ call = Idle
    /\ \E c \in Slots :
           /\ ~caches[c].live
           /\ LET x == BobaCache_new(COUNTER)
              IN  /\ caches' = [caches EXCEPT ![c] = x.cache]
                  /\ COUNTER' = x.counter
           /\ returned' = [returned EXCEPT ![c] = <<>>]
    /\ UNCHANGED <<global_scope, nested_scopes, call, frame_bound>>

\* The host drops a cache; the ids it returned are values and stay
Drop ==
    /\ call = Idle
    /\ \E c \in Slots :
           /\ caches[c].live
           /\ caches' = [caches EXCEPT ![c] = NoCache]
           /\ returned' = [returned EXCEPT ![c] = <<>>]
    /\ UNCHANGED <<global_scope, nested_scopes, call, frame_bound, COUNTER>>

\* `cache.store(label, data)`
Store ==
    /\ call = Idle
    /\ \E c \in Slots, label \in Labels, data \in Texts :
           /\ caches[c].live
           /\ Len(caches[c].store) < MaxStores
           /\ LET x == BobaCache_store(caches[c], label, data)
              IN  /\ x.r.k = "ok"
                  /\ caches' = [caches EXCEPT ![c] = x.cache]
                  /\ returned' = [returned EXCEPT ![c] = Append(@, x.r.v)]
                  /\ call' = [op |-> "store", cache |-> c, r |-> x.r]
    /\ UNCHANGED <<global_scope, nested_scopes, frame_bound, COUNTER>>

\* `cache.load(id)` with the id of entry i that the cache in slot `from`
\* returned
Load ==
    /\ call = Idle
    /\ \E c \in Slots, from \in Slots :
           /\ caches[c].live
           /\ caches[from].live
           /\ \E i \in DOMAIN returned[from] :
                  LET id == returned[from][i].id
                  IN  call' = [op |-> "load", cache |-> c, from |-> from, index |-> i,
                               id |-> id, r |-> BobaCache_load(caches[c], id)]
    /\ UNCHANGED <<global_scope, nested_scopes, frame_bound, cache_vars>>

NextCache == New \/ Drop \/ Store \/ Load \/ TakeResult
SpecCache == Init /\ [][NextCache]_vars

Next == EvalStatementCall \/ EvalCall \/ EvalFuncCall \/ TakeResult

Spec == Init /\ [][Next]_vars

\* ------------------------------------------------------------------------
\* Properties of the evaluator (specification Spec)
\* ------------------------------------------------------------------------

\* The engine as it was when the call in `call` began
PreEngine == [g |-> call.pre.g, n |-> call.pre.n, log |-> <<>>, fuel |-> Fuel]

EvalOps == {"eval", "eval_statement", "eval_func"}

\* The trace entries of the call in `call` that satisfy Test
Events(Test(_)) == {i \in DOMAIN call.log : Test(call.log[i])}

IsEvalOf(node, ev) == ev.ev = "eval" /\ ev.node = node

Evaluated(node) == \E i \in DOMAIN call.log : IsEvalOf(node, call.log[i])

\* C1: for the Ternary node the parser builds from `c ? a : b`, eval takes c
\* as the condition: it returns the value of a when c is Bool(true), the
\* value of b when c is Bool(false), and fails with TypeMismatch when c is no
\* Bool.
C1_TernaryAsParsed ==
    \A c \in TernaryConds, a \in TernaryClauses, b \in TernaryClauses :
        (call.op = "eval" /\ call.arg = ParsedTernary(c, a, b)) =>
            LET cv == eval(PreEngine, c).r.v
            IN  IF cv.t = "bool"
                THEN call.r = eval(PreEngine, IF cv.b THEN a ELSE b).r
                ELSE call.r.k = "err" /\ call.r.e.kind = "TypeMismatch"

\* C2: frame-stack integrity: every call of eval_func, eval and
\* eval_statement that returns, the nested and recursive ones included,
\* returns with as many call frames as there were at its entry, whether it
\* returns a value or an error.
C2_FrameStackIntegrity ==
    call.op \in EvalOps =>
        /\ Len(call.post.n) = Len(call.pre.n)
        /\ \A i \in DOMAIN call.log :
               call.log[i].ev = "ret" => call.log[i].d1 = call.log[i].d0

\* C2 witness: a call made inside a function body failed in its own body,
\* and the error went up through both frames.
C2_Witness ==
    /\ call.op \in EvalOps
    /\ call.r.k = "err"
    /\ \E i \in DOMAIN call.log :
           /\ call.log[i].ev = "ret"
           /\ call.log[i].fn = "eval_func"
           /\ call.log[i].d0 = 1
           /\ call.log[i].r.k = "err"
           /\ call.log[i].r.e.kind = "UnknownVariable"

\* C9: ternary short-circuit: of the two branches of `c ? a : b` exactly the
\* one c selects is evaluated; the evaluation succeeds when that branch
\* does, whatever the other branch would do, and a Walrus in the other
\* branch binds nothing.
C9_TernaryShortCircuit ==
    \A c \in {EBool(TRUE), EBool(FALSE)}, a \in TernaryClauses, b \in TernaryClauses :
        (call.op = "eval" /\ call.arg = ParsedTernary(c, a, b)
         /\ a # b /\ a # c /\ b # c) =>
            LET taken == IF c.b THEN a ELSE b
                untaken == IF c.b THEN b ELSE a
            IN  /\ Evaluated(taken)
                /\ ~Evaluated(untaken)
                /\ eval(PreEngine, taken).r.k = "ok" => call.r.k = "ok"
                /\ (untaken.e = "Walrus" /\ taken.e # "Walrus") => call.post = call.pre

\* The callee a call of eval_func by the host resolves to (there is no call
\* frame when the host calls), and its declared parameter count
Callee == call.pre.g.funcs[call.arg.ident]
Declared == IF Callee.ft = "Native" THEN Callee.count ELSE Len(Callee.params)

HostCallOf(ft) ==
    /\ call.op = "eval_func"
    /\ call.arg.ident \in DOMAIN call.pre.g.funcs
    /\ Callee.ft \in ft

\* C5: eval_func given more values than the callee declares parameters
\* fails with ParameterCount (expected the declared count, found the number
\* given) before anything runs: no frame is pushed, no statement and no
\* native callback runs, nothing is bound, and every frame is as before.
C5_TooManyArguments ==
    (HostCallOf({"Native", "Custom"}) /\ Len(call.arg.values) > Declared) =>
        /\ call.r = Err([kind |-> "ParameterCount", expected |-> Declared,
                         found |-> Len(call.arg.values)])
        /\ call.post = call.pre
        /\ \A i \in DOMAIN call.log :
               call.log[i].ev \notin
                   {"push", "pop", "stmt", "body", "eval", "native", "frame", "set_var",
                    "set_func"}

\* C5 witness: a custom function of one parameter called with two values.
C5_Witness ==
    /\ HostCallOf({"Custom"})
    /\ Declared = 1
    /\ Len(call.arg.values) = 2
    /\ call.r.k = "err"
    /\ call.r.e.kind = "ParameterCount"

\* The parameters a call with fewer values than parameters leaves unbound
Trailing == {Callee.params[i] : i \in (Len(call.arg.values) + 1)..Len(Callee.params)}

\* Entry i of the trace reads a trailing parameter in the body of the
\* called function before the body has bound it.
ReadsUnbound(i) ==
    /\ call.log[i].ev = "eval"
    /\ call.log[i].d = 1
    /\ call.log[i].node.e = "Var"
    /\ call.log[i].node.id \in Trailing
    /\ \A j \in 1..(i - 1) :
           ~(call.log[j].ev = "set_var" /\ call.log[j].d = 1
             /\ call.log[j].ident = call.log[i].node.id)

\* A call of a custom function with fewer values than parameters is
\* accepted, binds in the new frame exactly the parameters that got a
\* value, and every read of an unbound trailing parameter in the body, of
\* those that Fails selects, fails with UnknownVariable.
FewerArguments(Fails(_)) ==
    (HostCallOf({"Custom"}) /\ Len(call.arg.values) < Declared) =>
        /\ call.r.k = "err" => call.r.e.kind # "ParameterCount"
        /\ \E i \in DOMAIN call.log :
               /\ call.log[i].ev = "frame"
               /\ call.log[i].d = 1
               /\ DOMAIN call.log[i].vars =
                      {Callee.params[p] : p \in 1..Len(call.arg.values)}
        /\ \A i \in DOMAIN call.log :
               (ReadsUnbound(i) /\ Fails(call.log[i].node.id)) =>
                   /\ call.log[i + 1].ev = "ret"
                   /\ call.log[i + 1].r =
                          Err([kind |-> "UnknownVariable", ident |-> call.log[i].node.id])

AnyName(id) == TRUE
NotGlobal(id) == id \notin DOMAIN call.pre.g.vars

\* C6 as claimed: a call of a custom function with fewer arguments than
\* parameters is accepted, the trailing parameters are not bound in the new
\* frame, and a read of such a parameter in the body fails with
\* UnknownVariable.
C6_FewerArguments == FewerArguments(AnyName)

\* C6 as amended: the read fails with UnknownVariable when no other visible
\* frame (here the global frame) binds that name; the rest as claimed.
C6_FewerArgumentsUnlessVisible == FewerArguments(NotGlobal)

\* C6 witness: g(y) called without a value reads y, which no frame binds.
C6_Witness ==
    /\ HostCallOf({"Custom"})
    /\ Len(call.arg.values) < Declared
    /\ \E i \in DOMAIN call.log : ReadsUnbound(i) /\ NotGlobal(call.log[i].node.id)
    /\ call.r.k = "err"
    /\ call.r.e.kind = "UnknownVariable"

\* The host calls f, defined at the top level as `fn f() { y }`, without
\* arguments.
CallsF ==
    /\ \/ call.op = "eval_func" /\ call.arg = [ident |-> "f", values |-> <<>>]
       \/ call.op = "eval" /\ call.arg = ECall("f", <<>>)
       \/ call.op = "eval_statement" /\ call.arg = SExpr(ECall("f", <<>>))
    /\ "f" \in DOMAIN call.pre.g.funcs
    /\ call.pre.g.funcs["f"] = Custom(DefF)

\* C7: no lexical capture: after a call has returned, the global frame binds
\* only what it bound before and what was bound outside any call frame, and
\* no call frame is left; f, which reads y, called from the top level with y
\* unbound in the global frame fails with UnknownVariable, whatever earlier
\* calls bound in their frames.
C7_NoLexicalCapture ==
    /\ call.op \in EvalOps =>
           /\ call.post.n = <<>>
           /\ \A id \in DOMAIN call.post.g.vars \ DOMAIN call.pre.g.vars :
                  \E i \in DOMAIN call.log :
                      /\ call.log[i].ev = "set_var"
                      /\ call.log[i].d = 0
                      /\ call.log[i].ident = id
           /\ \A id \in DOMAIN call.post.g.funcs \ DOMAIN call.pre.g.funcs :
                  \E i \in DOMAIN call.log :
                      /\ call.log[i].ev = "set_func"
                      /\ call.log[i].d = 0
                      /\ call.log[i].ident = id
    /\ (CallsF /\ "y" \notin DOMAIN call.pre.g.vars) =>
           call.r = Err([kind |-> "UnknownVariable", ident |-> "y"])

\* C7 witness: f fails on y after an earlier call, which has returned, bound
\* y in its frame.
C7_Witness ==
    /\ CallsF
    /\ "y" \in frame_bound
    /\ "y" \notin DOMAIN call.pre.g.vars
    /\ call.r.k = "err"

\* The statements the called function's body ran, in the order they ran
BodyRun ==
    LET InBody(ev) == ev.ev = "body" /\ ev.d = 1
        sel == SelectSeq(call.log, InBody)
    IN  [i \in DOMAIN sel |-> sel[i].node]

\* The value the last statement of the called function's body returned
LastStatementValue ==
    LET R == {i \in DOMAIN call.log :
                  /\ call.log[i].ev = "ret"
                  /\ call.log[i].fn = "eval_statement"
                  /\ call.log[i].d0 = 1}
    IN  call.log[CHOOSE i \in R : \A j \in R : j <= i].r.v

\* C8: tail-value semantics: a call of a custom function that succeeds ran
\* the body statements in order and returns the value of the last one, which
\* is None for a Func, LetAssign, Assign or While statement; it returns None
\* when the body is empty.
C8_TailValue ==
    (HostCallOf({"Custom"}) /\ call.r.k = "ok") =>
        /\ BodyRun = Callee.body
        /\ IF Callee.body = <<>> THEN call.r.v = VNone
           ELSE /\ call.r.v = LastStatementValue
                /\ Callee.body[Len(Callee.body)].s \in {"Func", "LetAssign", "Assign", "While"}
                       => call.r.v = VNone

\* C8 witness: a body whose first statement yields Int(1) and whose last is
\* a LetAssign: the call returns None.
C8_Witness ==
    /\ HostCallOf({"Custom"})
    /\ call.r = Ok(VNone)
    /\ Len(Callee.body) = 2
    /\ Callee.body[1] = SExpr(EInt(1))
    /\ Callee.body[2].s = "LetAssign"

\* ------------------------------------------------------------------------
\* Properties of the frame store (specification SpecScope)
\* ------------------------------------------------------------------------

\* Frame `after` is frame `before` with key bound to v in map `field` and
\* nothing else changed.
Written(before, after, field, key, v) ==
    /\ DOMAIN after[field] = DOMAIN before[field] \cup {key}
    /\ after[field][key] = v
    /\ \A other \in DOMAIN before[field] \ {key} : after[field][other] = before[field][other]
    /\ \A rest \in {"vars", "funcs"} \ {field} : after[rest] = before[rest]

\* The call in `call` wrote key -> v into the top call frame, or into the
\* global frame when there was no call frame, and changed no other frame.
WroteTop(field, key, v) ==
    LET top == Len(call.pre.n)
    IN  /\ Len(call.post.n) = top
        /\ IF top = 0 THEN Written(call.pre.g, call.post.g, field, key, v)
           ELSE /\ call.post.g = call.pre.g
                /\ \A i \in 1..(top - 1) : call.post.n[i] = call.pre.n[i]
                /\ Written(call.pre.n[top], call.post.n[top], field, key, v)

\* C3: set_var and set_func write the binding into the top call frame when
\* the stack is not empty and into the global frame when it is; every other
\* frame is left as it was, also when it binds the same name.
C3_SetWritesTopFrame ==
    /\ call.op = "set_var" => WroteTop("vars", call.arg.ident, call.arg.value)
    /\ call.op = "set_func" => WroteTop("funcs", call.arg.ident, Custom(call.arg))

\* C3 witness: set_var on a stack of two call frames, where the lower call
\* frame and the global frame bind the same name to another value.
C3_Witness ==
    /\ call.op = "set_var"
    /\ Len(call.pre.n) = 2
    /\ call.arg.ident \in DOMAIN call.pre.n[1].vars
    /\ call.arg.ident \in DOMAIN call.pre.g.vars
    /\ call.arg.ident \notin DOMAIN call.pre.n[2].vars
    /\ call.pre.n[1].vars[call.arg.ident] # call.arg.value
    /\ call.pre.g.vars[call.arg.ident] # call.arg.value

\* The frames of the stack before the call that bind key in map `field`
Binding(field, key) == {i \in 1..Len(call.pre.n) : key \in DOMAIN call.pre.n[i][field]}

\* What a lookup of key in map `field` finds: the binding of the innermost
\* call frame that has one, else the global frame's; "none" when no frame
\* binds key.
Innermost(field, key) ==
    LET B == Binding(field, key)
    IN  IF B # {} THEN Ok(call.pre.n[CHOOSE i \in B : \A j \in B : j <= i][field][key])
        ELSE IF key \in DOMAIN call.pre.g[field] THEN Ok(call.pre.g[field][key])
        ELSE [k |-> "none"]

\* C4: get_var and get_func return the binding of the innermost frame that
\* has the name, call frames from the top down and the global frame last,
\* and report absence (None, UnknownFunction) only when no frame binds it.
C4_GetFindsInnermost ==
    /\ call.op = "get_var" => call.r = Innermost("vars", call.arg)
    /\ call.op = "get_func" =>
           IF Innermost("funcs", call.arg).k = "ok"
           THEN call.r = Innermost("funcs", call.arg)
           ELSE call.r.k = "err" /\ call.r.e = [kind |-> "UnknownFunction", ident |-> call.arg]

\* C4 witness: get_var of a name that two call frames and the global frame
\* bind, the top call frame to a value of its own.
C4_Witness ==
    /\ call.op = "get_var"
    /\ Len(call.pre.n) = 2
    /\ call.arg \in DOMAIN call.pre.g.vars
    /\ call.arg \in DOMAIN call.pre.n[1].vars
    /\ call.arg \in DOMAIN call.pre.n[2].vars
    /\ call.pre.n[2].vars[call.arg] # call.pre.n[1].vars[call.arg]
    /\ call.pre.n[2].vars[call.arg] # call.pre.g.vars[call.arg]
    /\ call.r.k = "ok"

\* ------------------------------------------------------------------------
\* Properties of eval_binary (specification SpecBinary)
\* ------------------------------------------------------------------------

Numeric == {"int", "float"}

\* Section 4.4: the result type of each listed combination; "invalid" for
\* every combination that is not listed.
CoercionTable(t1, op, t2) ==
    CASE op \in {"Add", "Sub", "Mul"} /\ t1 = "int" /\ t2 \in {"bool", "int"} -> "int"
      [] op \in {"Add", "Sub", "Mul"} /\ t1 = "int" /\ t2 = "float" -> "float"
      [] op \in {"Add", "Sub", "Mul"} /\ t1 = "float" /\ t2 \in {"bool", "int", "float"}
            -> "float"
      [] op = "Div" /\ t1 \in Numeric /\ t2 \in Numeric -> "float"
      [] op = "Mod" /\ t1 = "int" /\ t2 = "int" -> "int"
      [] op = "Mod" /\ t1 \in Numeric /\ t2 \in Numeric /\ <<t1, t2>> # <<"int", "int">>
            -> "float"
      [] op = "Pow" /\ t1 \in Numeric /\ t2 \in Numeric -> "float"
      [] op \in CompareOps /\ t1 \in Numeric /\ t2 \in Numeric -> "bool"
      [] op \in CompareOps /\ t1 = "bool" /\ t2 = "bool" -> "bool"
      [] op \in CompareOps /\ t1 = "string" /\ t2 = "string" -> "bool"
      [] op \in LogicOps /\ t1 = "bool" /\ t2 = "bool" -> "bool"
      [] op = "Add" /\ t1 = "string" /\ t2 \in {"bool", "int", "float", "string"} -> "string"
      [] op = "Mul" /\ t1 = "string" /\ t2 \in {"bool", "int"} -> "string"
      [] OTHER -> "invalid"

\* C10: the coercion table is exact: eval_binary yields a value of the
\* listed type for every listed (left type, operator, right type), and
\* InvalidBinary carrying the operator and both type names for every other
\* combination.
C10_CoercionTableExact ==
    call.op = "eval_binary" =>
        LET want == CoercionTable(call.val1.t, call.bop, call.val2.t)
        IN  IF want = "invalid"
            THEN call.r = Err([kind |-> "InvalidBinary", op |-> call.bop,
                               vtype1 |-> call.val1.t, vtype2 |-> call.val2.t])
            ELSE call.r.k = "ok" /\ call.r.v.t = want

\* C10 witness: Int ** Int gave a Float.
C10_Witness ==
    /\ call.op = "eval_binary"
    /\ call.val1.t = "int"
    /\ call.bop = "Pow"
    /\ call.val2.t = "int"
    /\ call.r.k = "ok"
    /\ call.r.v.t = "float"

\* C11: Euclidean modulo: for Int n and non-zero Int d, n % d is Int(r)
\* with 0 <= r < |d| and n - r divisible by d, whatever the signs; 7 % -3 is
\* 1 and -7 % 3 is 2.
C11_EuclideanModulo ==
    (/\ call.op = "eval_binary"
     /\ call.bop = "Mod"
     /\ call.val1.t = "int"
     /\ call.val2.t = "int") =>
        LET n == call.val1.i
            d == call.val2.i
            m == IF d < 0 THEN -d ELSE d
        IN  /\ d # 0
            /\ call.r.k = "ok"
            /\ call.r.v.t = "int"
            /\ 0 <= call.r.v.i
            /\ call.r.v.i < m
            /\ \E q \in -(2 * MaxInt)..(2 * MaxInt) : n - call.r.v.i = q * d
            /\ (n = 7 /\ d = -3) => call.r.v.i = 1
            /\ (n = -7 /\ d = 3) => call.r.v.i = 2

\* C11 witness: -7 % 3 gave Int(2).
C11_Witness ==
    /\ call.op = "eval_binary"
    /\ call.bop = "Mod"
    /\ call.val1 = VInt(-7)
    /\ call.val2 = VInt(3)
    /\ call.r = Ok(VInt(2))

\* ------------------------------------------------------------------------
\* Properties of the expression parser (specification SpecParse)
\* ------------------------------------------------------------------------

\* The precedence tier of an operator token, loosest first (section 4.2)
TierOfOp(op) ==
    CASE op \in {"Assign", "Walrus"} -> 1
      [] op = "Or" -> 3
      [] op = "And" -> 4
      [] op \in {"Eq", "Lt", "Gt", "NEq", "LtEq", "GtEq"} -> 5
      [] op \in {"Add", "Sub"} -> 6
      [] op \in {"Mul", "Div", "Mod"} -> 7
      [] op = "Pow" -> 8

\* The tier of an expression: that of its top operator, 2 for a ternary, 9
\* for a prefix operator, 10 for an atom
TierOf(tree) ==
    CASE tree.e \in BinaryOpType \cup {"Assign", "Walrus"} -> TierOfOp(tree.e)
      [] tree.e = "Ternary" -> 2
      [] tree.e \in {"Neg", "Not"} -> 9
      [] OTHER -> 10

\* The call in `call` parsed a chain of n operands
ParsedChain(n) ==
    /\ call.op = "parse"
    /\ call.arg.form = "chain"
    /\ Len(call.arg.operands) = n

Operands == [i \in DOMAIN call.arg.operands |-> call.arg.operands[i].tree]

\* The parser consumed every token and returned a node for `tree`
ParsedAs(tree) ==
    /\ call.r.k = "ok"
    /\ Item(call.r.node) = tree
    /\ call.rest = 0

LeftNested == EBinary(call.arg.ops[2], EBinary(call.arg.ops[1], Operands[1], Operands[2]),
                      Operands[3])

RightNested == EBinary(call.arg.ops[1], Operands[1],
                       EBinary(call.arg.ops[2], Operands[2], Operands[3]))

OneTwoZero == Chain3(IntLit(1), "Lt", IntLit(2), "Lt", IntLit(0))

\* C12: a chain e1 op1 e2 op2 e3 of comparison operators over operands of
\* the sum tier or tighter parses as op2(op1(e1, e2), e3); `1 < 2 < 0`
\* parses as (1 < 2) < 0 and its evaluation fails with InvalidBinary on Bool
\* versus Int.
C12_ComparisonChainsNestLeft ==
    /\ (/\ ParsedChain(3)
        /\ \A i \in 1..2 : call.arg.ops[i] \in ComparisonTokens
        /\ \A i \in 1..3 : TierOf(Operands[i]) >= 6) => ParsedAs(LeftNested)
    /\ (call.op = "eval_parsed" /\ call.arg = OneTwoZero) =>
           call.r = Err([kind |-> "InvalidBinary", op |-> "Lt", vtype1 |-> "bool",
                         vtype2 |-> "int"])

\* C13: chains of sum operators over operands that are products or tighter
\* nest to the left, and so do chains of product operators over operands
\* that are powers or tighter: `a - b - c` is Sub(Sub(a, b), c), `a / b / c`
\* is Div(Div(a, b), c), `a - b * c - d` is Sub(Sub(a, Mul(b, c)), d).
C13_SumsAndProductsNestLeft ==
    /\ (/\ ParsedChain(3)
        /\ \A i \in 1..2 : call.arg.ops[i] \in SumTokens
        /\ \A i \in 1..3 : TierOf(Operands[i]) >= 7) => ParsedAs(LeftNested)
    /\ (/\ ParsedChain(3)
        /\ \A i \in 1..2 : call.arg.ops[i] \in ProductTokens
        /\ \A i \in 1..3 : TierOf(Operands[i]) >= 8) => ParsedAs(LeftNested)

\* C14: the result of a tier can be the left operand of a looser tier: for
\* atoms a, b, c and op1 binding tighter than the binary operator op2,
\* `a op1 b op2 c` parses as op2(op1(a, b), c), and `a < b ? x : y` as
\* Ternary(Lt(a, b), x, y), with no token left.
C14_LooserTierFollows ==
    /\ (/\ ParsedChain(3)
        /\ \A i \in 1..3 : TierOf(Operands[i]) = 10
        /\ call.arg.ops[2] \in BinaryOpType
        /\ TierOfOp(call.arg.ops[1]) > TierOfOp(call.arg.ops[2])) => ParsedAs(LeftNested)
    /\ (/\ call.op = "parse"
        /\ call.arg.form = "ternary"
        /\ TierOf(call.arg.operands[1].tree) \in 3..8
        /\ \A i \in 2..3 : TierOf(call.arg.operands[i].tree) = 10) =>
           ParsedAs(ETernary(call.arg.operands[1].tree, call.arg.operands[2].tree,
                             call.arg.operands[3].tree))

\* C15: a prefix `-` or `!` binds tighter than any binary operator: `-a op
\* b` parses as op(Neg(a), b) and `!a op b` as op(Not(a), b), `**` included.
C15_PrefixBindsTightest ==
    (/\ ParsedChain(2)
     /\ call.arg.ops[1] \in BinaryOpType
     /\ Operands[1].e \in {"Neg", "Not"}
     /\ TierOf(Operands[1].inner) = 10
     /\ TierOf(Operands[2]) = 10) =>
        ParsedAs(EBinary(call.arg.ops[1], Operands[1], Operands[2]))

\* C16: `a or b` parses as Or(a, b), `a or b or c` as Or(Or(a, b), c) and
\* `a or b and c` as Or(a, And(b, c)).
C16_OrTier ==
    /\ (/\ ParsedChain(2)
        /\ call.arg.ops[1] = "Or"
        /\ \A i \in 1..2 : TierOf(Operands[i]) = 10) =>
           ParsedAs(EBinary("Or", Operands[1], Operands[2]))
    /\ (/\ ParsedChain(3)
        /\ \A i \in 1..3 : TierOf(Operands[i]) = 10
        /\ call.arg.ops = <<"Or", "Or">>) => ParsedAs(LeftNested)
    /\ (/\ ParsedChain(3)
        /\ \A i \in 1..3 : TierOf(Operands[i]) = 10
        /\ call.arg.ops = <<"Or", "And">>) => ParsedAs(RightNested)

\* The node of an assignment operator token
Assignment(op, target, expr) ==
    IF op = "Assign" THEN EAssign(target.id, expr) ELSE EWalrus(target.id, expr)

\* C17: assignment is right-associative, `a = b := c` is Assign(a,
\* Walrus(b, c)); when the expression to the left of `=` or `:=` is not a
\* bare Var (a literal, a call, an operator node), parsing fails with
\* InvalidAssignment at the assignment operator token.
C17_AssignmentTarget ==
    /\ (/\ ParsedChain(3)
        /\ \A i \in 1..3 : Operands[i].e = "Var"
        /\ \A i \in 1..2 : call.arg.ops[i] \in {"Assign", "Walrus"}) =>
           ParsedAs(Assignment(call.arg.ops[1], Operands[1],
                               Assignment(call.arg.ops[2], Operands[2], Operands[3])))
    /\ (/\ ParsedChain(2)
        /\ call.arg.ops[1] \in {"Assign", "Walrus"}
        /\ Operands[1].e # "Var") =>
           /\ call.r.k = "err"
           /\ call.r.e = [kind |-> "InvalidAssignment",
                          data |-> TokenSpan(Len(call.arg.operands[1].toks))]

Literal(expr) == expr.e \in {"None", "Bool", "Int"}

LiteralValue(expr) ==
    CASE expr.e = "Bool" -> VBool(expr.b)
      [] expr.e = "Int" -> VInt(expr.i)
      [] OTHER -> VNone

\* A Walrus that binds a literal
Binds(expr) == expr.e = "Walrus" /\ Literal(expr.expr)

\* The name had no binding when the host made the call
Unbound(id) == get_var(call.pre, id).k # "ok"

\* The trace takes up one node before it takes up the other
EvaluatedBefore(first, second) ==
    \E i \in DOMAIN call.log, j \in DOMAIN call.log :
        i < j /\ IsEvalOf(first, call.log[i]) /\ IsEvalOf(second, call.log[j])

\* The host evaluated `lhs and rhs` or `lhs or rhs`
EvalLogic == call.op = "eval" /\ call.arg.e \in LogicOps

\* C19: And and Or evaluate both operands, left before right, before any
\* type check.  With a left operand that cannot fail (false, true, or a value
\* that is not a Bool): the right operand is evaluated after it; a right
\* operand that reads an unbound name makes the call return that
\* UnknownVariable error, not a value and not InvalidBinary; a Walrus in the
\* right operand has bound its name when the call returns; and two operands
\* that both yield values give what eval_binary gives for them.
C19_LogicOperandsEager ==
    (EvalLogic /\ Literal(call.arg.lhs)) =>
        LET lhs == call.arg.lhs
            rhs == call.arg.rhs
        IN  /\ EvaluatedBefore(lhs, rhs)
            /\ (rhs.e = "Var" /\ Unbound(rhs.id)) => call.r = UnknownVariable(rhs.id)
            /\ Binds(rhs) => get_var(call.post, rhs.id) = Ok(LiteralValue(rhs.expr))
            /\ Literal(rhs) =>
                   call.r = eval_binary(LiteralValue(lhs), call.arg.e, LiteralValue(rhs))

\* C19 witness: `false and (x := true)` evaluated where x was unbound: the
\* call returns Bool(false) and x is bound to true.
C19_Witness ==
    /\ call.op = "eval"
    /\ call.arg = EBinary("And", EBool(FALSE), EWalrus("x", EBool(TRUE)))
    /\ Unbound("x")
    /\ call.r = Ok(VBool(FALSE))
    /\ get_var(call.post, "x") = Ok(VBool(TRUE))

\* The bindings the evaluation made outside any call frame, in order
SetVars ==
    LET made == SelectSeq(call.log, LAMBDA ev : ev.ev = "set_var" /\ ev.d = 0)
    IN  [i \in DOMAIN made |-> <<made[i].ident, made[i].value>>]

\* The Walrus bindings of literals in an expression, in source order
RECURSIVE Walruses(_)
WalrusesOf(exprs) ==
    LET RECURSIVE Join(_)
        Join(i) == IF i > Len(exprs) THEN <<>> ELSE Walruses(exprs[i]) \o Join(i + 1)
    IN  Join(1)
Walruses(expr) ==
    CASE Binds(expr) -> <<<<expr.id, LiteralValue(expr.expr)>>>>
      [] expr.e \in BinaryExprs -> WalrusesOf(<<expr.lhs, expr.rhs>>)
      [] expr.e = "Call" -> WalrusesOf(expr.params)
      [] OTHER -> <<>>

\* The values the first call of the trace was made with
CallValues ==
    LET calls == SelectSeq(call.log, LAMBDA ev : ev.ev = "call")
    IN  calls[1].values

\* Argument j reads the name argument i bound, with no binding of that name
\* by an argument in between
ReadsEarlier(params, i, j) ==
    /\ i < j
    /\ Binds(params[i])
    /\ params[j] = EVar(params[i].id)
    /\ \A m \in (i + 1)..(j - 1) : ~(params[m].e = "Walrus" /\ params[m].id = params[i].id)

\* C20: operands and call arguments are evaluated left to right, each once.
\* For an evaluation of a binary operator or a call whose operands are
\* literals, names and Walrus bindings of literals: when it returns a value,
\* the bindings it made are the Walrus bindings of the expression in source
\* order, each once; `(x := v) op x` gives eval_binary(v, op, v) whatever x
\* was before; `x op (x := v)` with x unbound fails with UnknownVariable(x);
\* a later argument that reads the name an earlier argument bound is passed
\* the value bound; and a Walrus yields the value it bound.
C20_LeftToRightOnce ==
    (call.op = "eval" /\ call.arg \in Orders) =>
        LET expr == call.arg
        IN  /\ call.r.k = "ok" => SetVars = Walruses(expr)
            /\ (expr.e \in BinaryExprs /\ Binds(expr.lhs) /\ expr.rhs = EVar(expr.lhs.id)) =>
                   call.r = eval_binary(LiteralValue(expr.lhs.expr), expr.e,
                                        LiteralValue(expr.lhs.expr))
            /\ (/\ expr.e \in BinaryExprs
                /\ expr.lhs.e = "Var"
                /\ Unbound(expr.lhs.id)
                /\ Binds(expr.rhs)) => call.r = UnknownVariable(expr.lhs.id)
            /\ (expr.e = "Call" /\ call.r.k = "ok") =>
                   \A i \in DOMAIN expr.params, j \in DOMAIN expr.params :
                       ReadsEarlier(expr.params, i, j) =>
                           CallValues[j] = LiteralValue(expr.params[i].expr)
            /\ Binds(expr) =>
                   /\ call.r = Ok(LiteralValue(expr.expr))
                   /\ get_var(call.post, expr.id) = call.r

\* C20 witness: `(x := 1) + x` evaluated where x was unbound returns Int(2)
\* and leaves x bound to 1.
C20_Witness ==
    /\ call.op = "eval"
    /\ call.arg = EBinary("Add", EWalrus("x", EInt(1)), EVar("x"))
    /\ Unbound("x")
    /\ call.r = Ok(VInt(2))
    /\ get_var(call.post, "x") = Ok(VInt(1))

\* ------------------------------------------------------------------------
\* Properties of statements and calls (specification Spec)
\* ------------------------------------------------------------------------

\* The host ran a While statement
RanWhile == call.op = "eval_statement" /\ call.arg.s = "While"

\* The result of the first call of fn that returns after entry i of the trace
ResultAfter(i, fn) ==
    LET rets == {j \in DOMAIN call.log :
                    j > i /\ call.log[j].ev = "ret" /\ call.log[j].fn = fn}
    IN  call.log[CHOOSE j \in rets : \A m \in rets : j <= m].r

\* Entry i of the trace is a step of the loop: an evaluation of the
\* condition or the start of a body statement
IsWhileStep(i) ==
    /\ i > 1
    /\ \/ IsEvalOf(call.arg.cond, call.log[i])
       \/ call.log[i].ev = "stmt"

\* The steps of the loop in the order taken, each with its result
RECURSIVE WhileStepsFrom(_)
WhileStepsFrom(i) ==
    IF i > Len(call.log) THEN <<>>
    ELSE IF ~IsWhileStep(i) THEN WhileStepsFrom(i + 1)
    ELSE <<[node |-> call.log[i].node,
            r |-> ResultAfter(i, IF call.log[i].ev = "stmt" THEN "eval_statement"
                                 ELSE "eval")]>>
         \o WhileStepsFrom(i + 1)

WhileSteps == WhileStepsFrom(1)

\* What step k of a loop is: 0 for the condition, j for body statement j
WhilePhase(k) == (k - 1) % (Len(call.arg.body) + 1)

\* C21: a While statement that returns went through condition, body
\* statements in order, condition, ... : the condition is evaluated before
\* every iteration; every step but the last gave Bool(true) (a condition) or
\* a value (a body statement); the last step is a condition that gave
\* Bool(false), and the statement returns None, or a condition that gave
\* another value, and the statement fails with TypeMismatch, or a step that
\* failed, and the statement returns that error.  So the statement returns a
\* value only when the condition gave Bool(false), and that value is None.
C21_WhileLoop ==
    RanWhile =>
        LET steps == WhileSteps
            n == Len(steps)
            last == steps[n]
        IN  /\ n >= 1
            /\ \A k \in 1..n :
                   steps[k].node = IF WhilePhase(k) = 0 THEN call.arg.cond
                                   ELSE call.arg.body[WhilePhase(k)]
            /\ \A k \in 1..(n - 1) :
                   IF WhilePhase(k) = 0 THEN steps[k].r = Ok(VBool(TRUE))
                   ELSE steps[k].r.k = "ok"
            /\ IF last.r.k = "err" THEN call.r = last.r
               ELSE /\ WhilePhase(n) = 0
                    /\ last.r # Ok(VBool(TRUE))
                    /\ IF last.r = Ok(VBool(FALSE)) THEN call.r = Ok(VNone)
                       ELSE /\ call.r.k = "err"
                            /\ call.r.e.kind = "TypeMismatch"
                            /\ call.r.e.found = type_name(last.r.v)
            /\ call.r.k = "ok" => (call.r = Ok(VNone) /\ last.r = Ok(VBool(FALSE)))

\* C21 witness: `while x { x = y; y = false }` ran two iterations and
\* returned None after the third evaluation of the condition.
C21_Witness ==
    /\ RanWhile
    /\ Len(call.arg.body) = 2
    /\ Len(WhileSteps) = 7
    /\ call.r = Ok(VNone)

\* The number of call frames when entry i of the trace was written
RECURSIVE DepthAt(_)
DepthAt(i) ==
    IF i = 1 THEN Len(call.pre.n)
    ELSE DepthAt(i - 1) + (CASE call.log[i - 1].ev = "push" -> 1
                             [] call.log[i - 1].ev = "pop" -> -1
                             [] OTHER -> 0)

\* Entry j of the trace is the return of the call of eval_func entered at
\* entry i
ReturnOf(i, j) ==
    LET Ret(m) == /\ m > i
                  /\ call.log[m].ev = "ret"
                  /\ call.log[m].fn = "eval_func"
                  /\ call.log[m].d0 = DepthAt(i)
    IN  Ret(j) /\ \A m \in (i + 1)..(j - 1) : ~Ret(m)

IsWrite(ev) == ev.ev \in {"set_var", "set_func"}

\* The variables of the global frame after the bindings the evaluation made
\* outside any call frame
RECURSIVE GlobalVarsAfter(_)
GlobalVarsAfter(i) ==
    IF i = 0 THEN call.pre.g.vars
    ELSE IF call.log[i].ev = "set_var" /\ call.log[i].d = 0
    THEN MapInsert(GlobalVarsAfter(i - 1), call.log[i].ident, call.log[i].value)
    ELSE GlobalVarsAfter(i - 1)

\* C22: a call of a custom function leaves every frame that existed at its
\* entry as it was.  A host call of eval_func on a custom function returns,
\* with a value or an error, with the global frame and the call frames
\* exactly as at entry.  Every call of eval_func in an evaluation, the
\* nested ones included, writes variables and functions only to frames above
\* those that were on the stack when it was entered.  What an evaluation
\* leaves changed in the global frame is what the bindings made outside any
\* call frame give: the variables are those at entry overwritten by these
\* bindings in order, and no function changes that was not defined there.
C22_CallLeavesFramesUnchanged ==
    /\ HostCallOf({"Custom"}) => call.post = call.pre
    /\ call.op \in EvalOps =>
           /\ \A i \in DOMAIN call.log, j \in DOMAIN call.log :
                  (call.log[i].ev = "call" /\ ReturnOf(i, j)) =>
                      \A m \in (i + 1)..(j - 1) :
                          IsWrite(call.log[m]) => call.log[m].d > DepthAt(i)
           /\ call.post.n = call.pre.n
           /\ call.post.g.vars = GlobalVarsAfter(Len(call.log))
           /\ \A id \in DOMAIN call.post.g.funcs :
                  \/ /\ id \in DOMAIN call.pre.g.funcs
                     /\ call.post.g.funcs[id] = call.pre.g.funcs[id]
                  \/ \E m \in DOMAIN call.log :
                         /\ call.log[m].ev = "set_func"
                         /\ call.log[m].d = 0
                         /\ call.log[m].ident = id

\* C22 witness: t (fn t() { 1; x = 2 }) called where the global frame binds
\* x: the body bound x in its own frame and the call returned.
C22_Witness ==
    /\ HostCallOf({"Custom"})
    /\ Callee = Custom(DefAssign)
    /\ "x" \in DOMAIN call.pre.g.vars
    /\ call.r.k = "ok"
    /\ \E m \in DOMAIN call.log :
           call.log[m].ev = "set_var" /\ call.log[m].ident = "x" /\ call.log[m].d = 1

\* Entry m of the trace is a Func statement run in a call frame
NestedFunc(m) == call.log[m].ev = "set_func" /\ call.log[m].d > 0

\* Entry p of the trace pops the frame that entry m wrote to
FrameEnd(m, p) ==
    LET Pop(q) == q > m /\ call.log[q].ev = "pop" /\ DepthAt(q) = call.log[m].d
    IN  Pop(p) /\ \A q \in (m + 1)..(p - 1) : ~Pop(q)

\* At entry i of the trace the frame that entry m wrote to is on the stack
OnStack(m, i) == m < i /\ \A p \in (m + 1)..(i - 1) : ~FrameEnd(m, p)

\* At entry i of the trace no frame defines the function id: the global
\* frame did not at the start, no Func statement outside a call frame
\* defined it, and every call frame in which one defined it has been popped
NotDefined(id, i) ==
    /\ id \notin DOMAIN call.pre.g.funcs
    /\ \A m \in 1..(i - 1) :
           (call.log[m].ev = "set_func" /\ call.log[m].ident = id) =>
               (NestedFunc(m) /\ ~OnStack(m, i))

\* C23: a Func statement run in a function body registers the function in
\* the call frame current at that point.  A call of that name made while
\* that frame is on the stack, from that frame or an inner one, resolves (it
\* does not fail with UnknownFunction for that name); a call made when the
\* frame has been popped and no frame defines the name fails with
\* UnknownFunction.
C23_NestedFuncInCurrentFrame ==
    call.op \in EvalOps =>
        \A i \in DOMAIN call.log, j \in DOMAIN call.log :
            (call.log[i].ev = "call" /\ ReturnOf(i, j)) =>
                LET id == call.log[i].ident
                IN  /\ (\E m \in 1..(i - 1) :
                            NestedFunc(m) /\ call.log[m].ident = id /\ OnStack(m, i)) =>
                           (/\ call.log[j].r # UnknownFunction(id)
                            /\ call.log[i + 1].ev = "push")
                    /\ NotDefined(id, i) => call.log[j].r = UnknownFunction(id)

\* C23 witness: `t() + h()` where t is fn t() { fn h() { 2 }; fn k() { h() };
\* k() }: h was called from k's frame and returned 2, t returned, and the
\* call of h after it failed with UnknownFunction.
C23_Witness ==
    /\ call.op = "eval"
    /\ call.arg = EBinary("Add", ECall("t", <<>>), ECall("h", <<>>))
    /\ call.r = UnknownFunction("h")
    /\ \E m \in DOMAIN call.log, i \in DOMAIN call.log, j \in DOMAIN call.log :
           /\ NestedFunc(m) /\ call.log[m].ident = "h"
           /\ call.log[i].ev = "call" /\ call.log[i].ident = "h"
           /\ OnStack(m, i)
           /\ DepthAt(i) = call.log[m].d + 1
           /\ ReturnOf(i, j)
           /\ call.log[j].r = Ok(VInt(2))

\* ------------------------------------------------------------------------
\* Properties of the spans of parsed nodes (specification SpecParse)
\* ------------------------------------------------------------------------

\* The token of the parsed input that covers the range p .. p + 1
Tok(p) == call.arg.toks[p + 1]

\* The token a leaf node is read from
LeafToken(item) ==
    CASE item.e = "None" -> Token("None")
      [] item.e = "Var" -> TIdent(item.id)
      [] item.e = "Int" -> TInt(item.i)
      [] item.e = "Bool" -> TBool(item.b)
      [] item.e = "Float" -> [t |-> "UFloat", n |-> item.n, d |-> item.d]
      [] item.e = "String" -> [t |-> "String", s |-> item.s]

\* The parameters of a call lie one after the other from position s, each
\* followed by a comma but the last, which ends at position e
RECURSIVE ParamsSpan(_, _, _)
ParamsSpan(params, s, e) ==
    IF params = <<>> THEN s = e
    ELSE /\ Head(params).span.start = s
         /\ IF Len(params) = 1 THEN Head(params).span.end = e
            ELSE /\ Head(params).span.end < e
                 /\ Tok(Head(params).span.end).t = "Comma"
                 /\ ParamsSpan(Tail(params), Head(params).span.end + 1, e)

RECURSIVE WellSpanned(_)
RECURSIVE Spanned(_, _, _)

\* The item spans s .. e as the node of its kind without parentheses: from
\* the start of its first token to the end of its last, the sub-nodes
\* between them with the operator tokens in between
Natural(x, s, e) ==
    CASE x.e \in {"None", "Var", "Bool", "Int", "Float", "String"} ->
            e = s + 1 /\ Tok(s) = LeafToken(x)
      [] x.e = "Call" ->
            /\ x.id.span = TokenSpan(s)
            /\ Tok(s) = TIdent(x.id.item)
            /\ e >= s + 3
            /\ Tok(s + 1).t = "OpenParen"
            /\ Tok(e - 1).t = "CloseParen"
            /\ ParamsSpan(x.params, s + 2, e - 1)
            /\ \A i \in DOMAIN x.params : WellSpanned(x.params[i])
      [] x.e \in UnaryOpType ->
            /\ Tok(s).t = (IF x.e = "Neg" THEN "Sub" ELSE "Not")
            /\ x.inner.span = Span(s + 1, e)
            /\ WellSpanned(x.inner)
      [] x.e \in BinaryOpType ->
            /\ x.lhs.span.start = s
            /\ x.rhs.span.end = e
            /\ x.rhs.span.start = x.lhs.span.end + 1
            /\ Tok(x.lhs.span.end).t \in BinaryOpType
            /\ WellSpanned(x.lhs)
            /\ WellSpanned(x.rhs)
      [] x.e \in {"Assign", "Walrus"} ->
            /\ x.id.span.start = s
            /\ x.expr.span.end = e
            /\ x.expr.span.start = x.id.span.end + 1
            /\ Tok(x.id.span.end).t = x.e
            /\ Spanned(EVar(x.id.item), x.id.span.start, x.id.span.end)
            /\ WellSpanned(x.expr)
      [] x.e = "Ternary" ->
            /\ x.f0.span.start = s
            /\ Tok(x.f0.span.end).t = "Question"
            /\ x.f1.span.start = x.f0.span.end + 1
            /\ Tok(x.f1.span.end).t = "Colon"
            /\ x.f2.span.start = x.f1.span.end + 1
            /\ x.f2.span.end = e
            /\ WellSpanned(x.f0) /\ WellSpanned(x.f1) /\ WellSpanned(x.f2)

\* The item spans s .. e, without parentheses or from `(` to `)` around it
Spanned(x, s, e) ==
    /\ 0 <= s /\ s < e /\ e <= Len(call.arg.toks)
    /\ \/ Natural(x, s, e)
       \/ /\ e - s >= 3
          /\ Tok(s).t = "OpenParen"
          /\ Tok(e - 1).t = "CloseParen"
          /\ Spanned(x, s + 1, e - 1)

WellSpanned(node) == Spanned(node.item, node.span.start, node.span.end)

\* C24: every node of a tree Expr::parse returns spans from the start of the
\* leftmost token consumed for it to the end of the rightmost: a leaf its
\* token, a binary, assignment or ternary node from its first operand's
\* start to its last operand's end, a unary node from the operator token to
\* its operand's end, a call from the identifier to the closing `)`, a
\* parenthesized expression from `(` to `)`; the root spans from the first
\* token of the input to the last token consumed.
C24_NodeSpans ==
    (call.op = "parse" /\ call.r.k = "ok") =>
        /\ call.r.node.span = Span(0, call.r.p)
        /\ WellSpanned(call.r.node)

\* C24 witness: `f((a), 1) + (b)` parsed to an Add node over the whole input
\* whose left operand, the call, ends at its `)` and whose first parameter
\* spans the parentheses around a.
C24_Witness ==
    /\ call.op = "parse"
    /\ call.r.k = "ok"
    /\ call.arg.toks =
           Infix(CallOf("f", Parens(Ident("a")), IntLit(1)), "Add", Parens(Ident("b"))).toks
    /\ call.r.node.span = Span(0, 12)
    /\ call.r.node.item.e = "Add"
    /\ call.r.node.item.lhs.span = Span(0, 8)
    /\ call.r.node.item.lhs.item.params[1].span = Span(2, 5)
    /\ call.r.node.item.rhs.span = Span(9, 12)

\* C25: every node Expr::parse builds is evaluated by Engine::eval: some
\* arm of eval takes it and each of its sub-nodes that is reached, and the
\* Assign node built from `x = e`, for a literal e, returns and leaves x
\* bound to the value of e, as the Walrus node of `x := e` does.
C25_AssignEvaluated ==
    (call.op = "parse" /\ call.r.k = "ok") =>
        LET expr == Item(call.r.node)
            x == eval(Start, expr)
        IN  /\ x.r # NoMatch
            /\ (expr.e \in {"Assign", "Walrus"} /\ Literal(expr.expr)) =>
                   /\ Returns(x.r)
                   /\ get_var(x.E, expr.id) = Ok(LiteralValue(expr.expr))

\* An argument or operand that cannot fail: a literal or a Walrus of one
Safe(expr) == Literal(expr) \/ Binds(expr)

\* The host evaluated a call expression
EvalOfCall == call.op = "eval" /\ call.arg.e = "Call"

\* The first argument of the call that reads a name unbound at entry, after
\* arguments that cannot fail and do not bind that name; 0 if there is none
FailingParam ==
    LET params == call.arg.params
        F == {i \in DOMAIN params :
                 /\ params[i].e = "Var"
                 /\ Unbound(params[i].id)
                 /\ \A m \in 1..(i - 1) :
                        Safe(params[m]) /\ (Binds(params[m]) => params[m].id # params[i].id)}
    IN  IF F = {} THEN 0 ELSE CHOOSE i \in F : TRUE

\* The arguments evaluated before the call failed or was made
ParamsEvaluated ==
    IF FailingParam = 0 THEN DOMAIN call.arg.params ELSE 1..(FailingParam - 1)

\* C26: errors do not roll back earlier effects.  For a call expression
\* whose arguments are literals, Walrus bindings of literals and reads of
\* names: the arguments are evaluated before the callee is resolved, so an
\* argument that reads an unbound name makes the call fail with that
\* UnknownVariable error whether or not the callee exists, and eval_func is
\* not called; with arguments that cannot fail, every argument is evaluated
\* before eval_func is called, an unknown callee gives UnknownFunction and
\* too many arguments give ParameterCount; in each case the name bound by the last
\* Walrus among the arguments evaluated is bound to its value when the call
\* has returned.  For a binary operator whose left operand binds a name and
\* whose right operand fails, the error is the right operand's and the name
\* stays bound.
C26_ErrorsKeepEffects ==
    /\ (EvalOfCall /\ \A i \in DOMAIN call.arg.params :
                          Safe(call.arg.params[i]) \/ call.arg.params[i].e = "Var") =>
           LET params == call.arg.params
               id == call.arg.id
               known == id \in DOMAIN call.pre.g.funcs
               f == call.pre.g.funcs[id]
           IN  /\ FailingParam > 0 =>
                      /\ call.r = UnknownVariable(params[FailingParam].id)
                      /\ \A i \in DOMAIN call.log : call.log[i].ev # "call"
               /\ (\A i \in DOMAIN params : Safe(params[i])) =>
                      /\ \E i \in DOMAIN call.log : call.log[i].ev = "call"
                      /\ \A m \in DOMAIN params :
                             \E i \in DOMAIN call.log :
                                 IsEvalOf(params[m], call.log[i]) /\ call.log[i].d = 0
                      /\ \A i \in DOMAIN call.log, j \in DOMAIN call.log :
                             (/\ call.log[i].ev = "eval"
                              /\ call.log[i].d = 0
                              /\ call.log[j].ev = "call") => i < j
                      /\ ~known => call.r = UnknownFunction(id)
                      /\ (known /\ f.ft = "Custom" /\ Len(f.params) < Len(params)) =>
                             call.r = ParameterCount(Len(f.params), Len(params))
               /\ \A m \in ParamsEvaluated :
                      (/\ Binds(params[m])
                       /\ \A n \in ParamsEvaluated :
                              (n > m /\ Binds(params[n])) => params[n].id # params[m].id) =>
                          get_var(call.post, params[m].id) = Ok(LiteralValue(params[m].expr))
    /\ (/\ call.op = "eval"
        /\ call.arg.e \in BinaryExprs
        /\ Binds(call.arg.lhs)) =>
           LET id == call.arg.lhs.id
               rhs == call.arg.rhs
           IN  /\ (rhs.e = "Var" /\ rhs.id # id /\ Unbound(rhs.id)) =>
                      /\ call.r = UnknownVariable(rhs.id)
                      /\ get_var(call.post, id) = Ok(LiteralValue(call.arg.lhs.expr))
               /\ (rhs.e = "Call" /\ rhs.params = <<>>
                   /\ rhs.id \notin DOMAIN call.pre.g.funcs) =>
                      /\ call.r = UnknownFunction(rhs.id)
                      /\ get_var(call.post, id) = Ok(LiteralValue(call.arg.lhs.expr))

\* C26 witness: `h(x := 1)` evaluated where h is not defined and x was
\* unbound: the call failed with UnknownFunction and x is bound to 1.
C26_Witness ==
    /\ call.op = "eval"
    /\ call.arg = ECall("h", <<EWalrus("x", EInt(1))>>)
    /\ Unbound("x")
    /\ call.r = UnknownFunction("h")
    /\ get_var(call.post, "x") = Ok(VInt(1))

\* ------------------------------------------------------------------------
\* Properties of the cache (specification SpecCache)
\* ------------------------------------------------------------------------

\* The ids a CacheId can take
CacheIds == 0..(U32 * U32 - 1)

\* The ids the store calls on the cache in slot c returned
ReturnedIds(c) == {returned[c][i].id : i \in DOMAIN returned[c]}

\* C27: load is the inverse of store.  For every cache the host keeps: the
\* ids its store calls returned are pairwise distinct; load of each of them
\* gives the entry, label and text, that the store call returned, whatever
\* was stored later; load of an id that is none of them gives None.  And
\* load of an id that a store call on another instance returned gives None,
\* also when that id has the same index as an entry of this cache.
C27_LoadInvertsStore ==
    /\ \A c \in Slots :
           caches[c].live =>
               /\ \A i \in DOMAIN returned[c], j \in DOMAIN returned[c] :
                      i # j => returned[c][i].id # returned[c][j].id
               /\ \A i \in DOMAIN returned[c] :
                      BobaCache_load(caches[c], returned[c][i].id) = Ok(returned[c][i])
               /\ \A id \in CacheIds \ ReturnedIds(c) :
                      BobaCache_load(caches[c], id) = Absent
    /\ call.op = "load" =>
           IF call.from = call.cache
           THEN call.r = Ok(returned[call.cache][call.index])
           ELSE call.r = Absent

====
